---------------------------- MODULE Spec2Model ----------------------------
(***************************************************************************)
(* A state-machine model of the flocking simulation kernel in              *)
(* src/sim-wasm/src (lib.rs, model_classic.rs, model_flock2.rs, flock2.rs, *)
(* math.rs, neighbor_grid.rs).                                             *)
(*                                                                         *)
(* Numbers.  The kernel computes in f32.  The model computes in fixed      *)
(* point, every quantity an integer multiple of a unit:                    *)
(*   lengths (positions, radii, minimum distances)   1/20000 world unit    *)
(*   velocities, accelerations, forces, weights      1/1000                *)
(*   time steps                                      1 millisecond         *)
(* so WORLD_SIZE = 1.0 is 20000, EPSILON = 1.0e-6 compared with a squared  *)
(* length is 400 and compared with a squared speed is 1.  Quotients round  *)
(* to the nearest unit.  The three non-finite f32 values an input can hold *)
(* are the integers NegInf, PosInf and NaN outside the finite range.       *)
(*                                                                         *)
(* Agents are indexed 0 .. count-1 as in the source.                       *)
(***************************************************************************)
EXTENDS Integers, Sequences, FiniteSets, TLC

----------------------------------------------------------------------------
(* f32 values that are not finite *)

PosInf == 2000000000 + 0
NegInf == 0 - 2000000000
NaN    == 2000000000 + 1

is_finite(v) == v > NegInf /\ v < PosInf

----------------------------------------------------------------------------
(* Program constants, in the model's units *)

\* lib.rs
EPSILON_LEN_SQ == 400
EPSILON_VEL_SQ == 1
EPSILON == 0
DT_MIN == 0
DT_MAX == 100
WORLD_SIZE == 20000
DEFAULT_Z_LAYER == 10000
MIN_NEIGHBOR_RADIUS == 20
MAX_NEIGHBOR_RADIUS == 10000
MIN_SEPARATION_RADIUS == 10
MIN_SPEED == 0
MAX_SPEED == 3000
MIN_MAX_FORCE == 0
MAX_MAX_FORCE == 5000
DEFAULT_MAX_FORCE == 420
MIN_Z_FORCE_SCALE == 0
MAX_Z_FORCE_SCALE == 2000
DEFAULT_Z_FORCE_SCALE == 750
MIN_MIN_DISTANCE == 0
MAX_MIN_DISTANCE == 20000
DEFAULT_SOFT_MIN_DISTANCE == 160
DEFAULT_HARD_MIN_DISTANCE == 0
MIN_JITTER_STRENGTH == 0
MAX_JITTER_STRENGTH == 1000
DEFAULT_JITTER_STRENGTH == 10
MIN_DRAG == 0
MAX_DRAG == 6000
DEFAULT_DRAG == 0
\* (hard_min_distance - dist) * 0.5 * HARD_CONSTRAINT_RELAXATION is a division by 40
HARD_CONSTRAINT_RELAXATION_DIV == 40
HARD_CONSTRAINT_MAX_PUSH == 50

\* neighbor_grid.rs (MIN_BOUND also lib.rs): 1.0e-6 is below one length unit
MIN_BOUND == 1
MIN_CELL_SIZE == 1
INVALID_INDEX == 0 - 1

\* flock2.rs
FLOCK2_MAX_TOPOLOGICAL_NEIGHBORS == 64
FLOCK2_MIN_TOPOLOGICAL_NEIGHBORS == 1
FLOCK2_MAX_BOUNDARY_COUNT == 256000
FLOCK2_MIN_FOV_DEG == 30
FLOCK2_MAX_FOV_DEG == 360
FLOCK2_MIN_REACTION_MS == 25
FLOCK2_MAX_REACTION_MS == 2000
FLOCK2_MIN_DYNAMIC_STABILITY == 0
FLOCK2_MAX_DYNAMIC_STABILITY == 1000
FLOCK2_MIN_MASS == 10
FLOCK2_MAX_MASS == 5000
\* wing areas in 1/10000
FLOCK2_MIN_WING_AREA == 5
FLOCK2_MAX_WING_AREA == 10000
FLOCK2_MIN_LIFT_FACTOR == 0
FLOCK2_MAX_LIFT_FACTOR == 2000
FLOCK2_MIN_DRAG_FACTOR == 0
FLOCK2_MAX_DRAG_FACTOR == 2000
FLOCK2_MIN_THRUST == 0
FLOCK2_MAX_THRUST == 20000
FLOCK2_MIN_GRAVITY == 0
FLOCK2_MAX_GRAVITY == 30000
FLOCK2_MIN_AIR_DENSITY == 100
FLOCK2_MAX_AIR_DENSITY == 3000
\* v * FLOCK2_WORLD_SCALE (0.02) is a division by 50
FLOCK2_WORLD_SCALE_DIV == 50

----------------------------------------------------------------------------
(* Arithmetic helpers of the fixed-point representation *)

Abs(a) == IF a < 0 THEN 0 - a ELSE a
\* v has a value: TLC evaluates an operator's argument where the operator
\* first reads it, so a loop that reads its accumulator on every iteration
\* evaluates it one iteration at a time
evaluated(v) == v = v
Min2(a, b) == IF a < b THEN a ELSE b
Max2(a, b) == IF a > b THEN a ELSE b

\* a / b rounded to the nearest integer (halves away from zero), b > 0
RDiv(a, b) == IF a >= 0 THEN (2 * a + b) \div (2 * b)
              ELSE 0 - ((2 * (0 - a) + b) \div (2 * b))

\* a * b / c rounded to the nearest integer
MulDiv(a, b, c) == RDiv(a * b, c)

\* floor and ceiling of a / b for a >= 0, b > 0
FloorDiv(a, b) == a \div b
CeilDiv(a, b) == (a + b - 1) \div b

\* whether r is the floor of the square root of n among the multiples of
\* unit; 46340 is the largest root of a 32-bit square
is_root_step(n, r, unit) ==
    /\ r <= 46340 /\ r * r <= n
    /\ (r + unit > 46340 \/ (r + unit) * (r + unit) > n)

\* the largest r among base, base + unit, .., base + 15 * unit with
\* r * r <= n, for a base whose next multiple of 16 * unit is beyond the root
root_step(n, base, unit) ==
    base + unit * (CHOOSE a \in 0 .. 15 :
                       is_root_step(n, base + a * unit, unit))

\* the floor of the square root of n, digit by digit in base 16
floor_root(n) ==
    IF n <= 0 THEN 0
    ELSE root_step(n, root_step(n, root_step(n, root_step(n, 0, 4096), 256), 16), 1)

\* the integer nearest to the square root of n, given its floor r
nearest_root(n, r) == IF n - r * r > r THEN r + 1 ELSE r

\* f32::sqrt: the square root of n >= 0, rounded to the nearest unit
Sqrt(n) == nearest_root(n, floor_root(n))

\* f32::clamp(self, min, max) for min <= max; NaN stays NaN
f32_clamp(v, lo, hi) ==
    IF v = NaN THEN NaN
    ELSE IF v < lo THEN lo ELSE IF v > hi THEN hi ELSE v

\* f32::clamp panics when min > max (or either is NaN)
f32_clamp_panics(lo, hi) == lo > hi \/ lo = NaN \/ hi = NaN

\* f32::rem_euclid(WORLD_SIZE)
rem_euclid(p, m) == p % m


----------------------------------------------------------------------------
(* lib.rs: clamp_finite, SimConfig *)

\* lib.rs clamp_finite (flock2.rs holds an identical copy)
clamp_finite(value, min, max, fallback) ==
    IF ~is_finite(value) THEN fallback ELSE f32_clamp(value, min, max)

\* whether that call of clamp_finite reaches f32::clamp with min > max
clamp_finite_panics(value, min, max) ==
    is_finite(value) /\ f32_clamp_panics(min, max)

MathModes == {"Accurate", "Fast"}

\* MathMode::from_u32
MathMode_from_u32(value) == IF value = 1 THEN "Fast" ELSE "Accurate"

\* SimConfig::default; shape_attractor_weight is the field step_classic reads
SimConfig_default ==
    [ sep_weight |-> 1450, align_weight |-> 1000, coh_weight |-> 850,
      neighbor_radius |-> 1600, separation_radius |-> 700,
      min_speed |-> 45, max_speed |-> 190,
      max_force |-> DEFAULT_MAX_FORCE,
      math_mode |-> "Accurate",
      max_neighbors_sampled |-> 0,
      soft_min_distance |-> DEFAULT_SOFT_MIN_DISTANCE,
      hard_min_distance |-> DEFAULT_HARD_MIN_DISTANCE,
      jitter_strength |-> DEFAULT_JITTER_STRENGTH,
      drag |-> DEFAULT_DRAG,
      shape_attractor_weight |-> 0 ]

\* SimConfig::sanitize: each field in the source's order, later clamps
\* reading the fields already sanitized
SimConfig_sanitize(c) ==
    LET nr == clamp_finite(c.neighbor_radius, MIN_NEIGHBOR_RADIUS,
                           MAX_NEIGHBOR_RADIUS, 1600)
        sr == clamp_finite(c.separation_radius, MIN_SEPARATION_RADIUS, nr, 700)
        mn == clamp_finite(c.min_speed, MIN_SPEED, MAX_SPEED, 45)
        \* self.min_speed.max(MIN_NEIGHBOR_RADIUS): 0.001 as a speed is 1
        mx == clamp_finite(c.max_speed, Max2(mn, 1), MAX_SPEED, 190)
    IN  [ c EXCEPT
            !.sep_weight = clamp_finite(c.sep_weight, 0, 10000, 1450),
            !.align_weight = clamp_finite(c.align_weight, 0, 10000, 1000),
            !.coh_weight = clamp_finite(c.coh_weight, 0, 10000, 850),
            !.neighbor_radius = nr,
            !.separation_radius = sr,
            !.min_speed = mn,
            !.max_speed = mx,
            !.max_force = clamp_finite(c.max_force, MIN_MAX_FORCE,
                                       MAX_MAX_FORCE, DEFAULT_MAX_FORCE),
            !.soft_min_distance = clamp_finite(c.soft_min_distance,
                MIN_MIN_DISTANCE, MAX_MIN_DISTANCE, DEFAULT_SOFT_MIN_DISTANCE),
            !.hard_min_distance = clamp_finite(c.hard_min_distance,
                MIN_MIN_DISTANCE, MAX_MIN_DISTANCE, DEFAULT_HARD_MIN_DISTANCE),
            !.jitter_strength = clamp_finite(c.jitter_strength,
                MIN_JITTER_STRENGTH, MAX_JITTER_STRENGTH, DEFAULT_JITTER_STRENGTH),
            !.drag = clamp_finite(c.drag, MIN_DRAG, MAX_DRAG, DEFAULT_DRAG) ]

\* whether a clamp of SimConfig::sanitize is invoked with min > max
SimConfig_sanitize_panics(c) ==
    LET nr == clamp_finite(c.neighbor_radius, MIN_NEIGHBOR_RADIUS,
                           MAX_NEIGHBOR_RADIUS, 1600)
        mn == clamp_finite(c.min_speed, MIN_SPEED, MAX_SPEED, 45)
    IN  \/ clamp_finite_panics(c.neighbor_radius, MIN_NEIGHBOR_RADIUS,
                               MAX_NEIGHBOR_RADIUS)
        \/ clamp_finite_panics(c.separation_radius, MIN_SEPARATION_RADIUS, nr)
        \/ clamp_finite_panics(c.min_speed, MIN_SPEED, MAX_SPEED)
        \/ clamp_finite_panics(c.max_speed, Max2(mn, 1), MAX_SPEED)

----------------------------------------------------------------------------
(* flock2.rs: Flock2Config *)

\* Flock2Config::default
Flock2Config_default ==
    [ avoid_weight |-> 20, align_weight |-> 600, cohesion_weight |-> 4,
      boundary_weight |-> 100, boundary_count |-> 20000,
      neighbor_radius |-> 2000, topological_neighbors |-> 7,
      field_of_view_deg |-> 290, reaction_time_ms |-> 250,
      dynamic_stability |-> 700, mass |-> 80, wing_area |-> 224,
      lift_factor |-> 571, drag_factor |-> 173, thrust |-> 237,
      min_speed |-> 5000, max_speed |-> 18000,
      gravity |-> 9800, air_density |-> 1225 ]

\* Flock2Config::sanitize
Flock2Config_sanitize(c) ==
    LET mn == clamp_finite(c.min_speed, 0, 200000, 5000)
        mx == clamp_finite(c.max_speed, Max2(mn, 100), 250000, 18000)
    IN  [ c EXCEPT
            !.avoid_weight = clamp_finite(c.avoid_weight, 0, 2000, 20),
            !.align_weight = clamp_finite(c.align_weight, 0, 2000, 600),
            !.cohesion_weight = clamp_finite(c.cohesion_weight, 0, 2000, 4),
            !.boundary_weight = clamp_finite(c.boundary_weight, 0, 2000, 100),
            !.boundary_count = clamp_finite(c.boundary_count, 0,
                                            FLOCK2_MAX_BOUNDARY_COUNT, 20000),
            !.neighbor_radius = clamp_finite(c.neighbor_radius,
                MIN_NEIGHBOR_RADIUS, MAX_NEIGHBOR_RADIUS, 2000),
            !.topological_neighbors =
                Min2(Max2(c.topological_neighbors, FLOCK2_MIN_TOPOLOGICAL_NEIGHBORS),
                     FLOCK2_MAX_TOPOLOGICAL_NEIGHBORS),
            !.field_of_view_deg = clamp_finite(c.field_of_view_deg,
                FLOCK2_MIN_FOV_DEG, FLOCK2_MAX_FOV_DEG, 290),
            !.reaction_time_ms = clamp_finite(c.reaction_time_ms,
                FLOCK2_MIN_REACTION_MS, FLOCK2_MAX_REACTION_MS, 250),
            !.dynamic_stability = clamp_finite(c.dynamic_stability,
                FLOCK2_MIN_DYNAMIC_STABILITY, FLOCK2_MAX_DYNAMIC_STABILITY, 700),
            !.mass = clamp_finite(c.mass, FLOCK2_MIN_MASS, FLOCK2_MAX_MASS, 80),
            !.wing_area = clamp_finite(c.wing_area, FLOCK2_MIN_WING_AREA,
                                       FLOCK2_MAX_WING_AREA, 224),
            !.lift_factor = clamp_finite(c.lift_factor, FLOCK2_MIN_LIFT_FACTOR,
                                         FLOCK2_MAX_LIFT_FACTOR, 571),
            !.drag_factor = clamp_finite(c.drag_factor, FLOCK2_MIN_DRAG_FACTOR,
                                         FLOCK2_MAX_DRAG_FACTOR, 173),
            !.thrust = clamp_finite(c.thrust, FLOCK2_MIN_THRUST,
                                    FLOCK2_MAX_THRUST, 237),
            !.min_speed = mn,
            !.max_speed = mx,
            !.gravity = clamp_finite(c.gravity, FLOCK2_MIN_GRAVITY,
                                     FLOCK2_MAX_GRAVITY, 9800),
            !.air_density = clamp_finite(c.air_density, FLOCK2_MIN_AIR_DENSITY,
                                         FLOCK2_MAX_AIR_DENSITY, 1225) ]

\* whether a clamp of Flock2Config::sanitize is invoked with min > max
Flock2Config_sanitize_panics(c) ==
    LET mn == clamp_finite(c.min_speed, 0, 200000, 5000)
    IN  clamp_finite_panics(c.max_speed, Max2(mn, 100), 250000)

----------------------------------------------------------------------------
(* math.rs *)

\* EPSILON (1.0e-6) compared with the squared magnitude of a vector whose
\* components are multiples of 1/unit
EpsSq(unit) == (unit * unit) \div 1000000

\* math::distance_sq_3d
distance_sq_3d(dx, dy, dz) == dx * dx + dy * dy + dz * dz

\* math::inverse_sqrt applied as a scale: x * (magnitude * inverse_sqrt(mag_sq)),
\* root being the square root of mag_sq.  Accurate divides by the square
\* root.  Fast (fast_inverse_sqrt: the bit-level estimate and one
\* Newton-Raphson step) lies below the true value by up to 0.175%; the model
\* takes that lower end.
fast_inverse_sqrt(mode, exact) ==
    IF mode = "Fast" THEN RDiv(exact * 9983, 10000) ELSE exact

scale_by_inverse_sqrt(mode, x, magnitude, root) ==
    fast_inverse_sqrt(mode, MulDiv(x, magnitude, root))

\* (x * scale, y * scale, z * scale) for scale = magnitude * inverse_sqrt
scale_vector(mode, x, y, z, magnitude, root) ==
    << scale_by_inverse_sqrt(mode, x, magnitude, root),
       scale_by_inverse_sqrt(mode, y, magnitude, root),
       scale_by_inverse_sqrt(mode, z, magnitude, root) >>

\* math::normalize_to_magnitude; unit is the fixed-point unit of (x, y, z)
normalize_to_magnitude(mode, x, y, z, magnitude, unit) ==
    IF distance_sq_3d(x, y, z) <= EpsSq(unit) THEN <<0, 0, 0>>
    ELSE scale_vector(mode, x, y, z, magnitude, Sqrt(distance_sq_3d(x, y, z)))

\* math::limit_magnitude_3d
limit_magnitude_3d(mode, x, y, z, max_magnitude) ==
    IF max_magnitude <= 0 THEN <<0, 0, 0>>
    ELSE IF Max2(Abs(x), Max2(Abs(y), Abs(z))) > 20000
    THEN \* far above any max_magnitude: scaled down to max_magnitude, the
         \* squared length taken on a coarser unit
         normalize_to_magnitude(mode,
             RDiv(x, Max2(Abs(x), Max2(Abs(y), Abs(z))) \div 20000 + 1),
             RDiv(y, Max2(Abs(x), Max2(Abs(y), Abs(z))) \div 20000 + 1),
             RDiv(z, Max2(Abs(x), Max2(Abs(y), Abs(z))) \div 20000 + 1),
             max_magnitude, 1)
    ELSE IF distance_sq_3d(x, y, z) <= max_magnitude * max_magnitude
    THEN <<x, y, z>>
    ELSE scale_vector(mode, x, y, z, max_magnitude,
                      Sqrt(distance_sq_3d(x, y, z)))

----------------------------------------------------------------------------
(* neighbor_grid.rs.  A Vec of length n is a function on 0 .. n-1. *)

VecLen(v) == Cardinality(DOMAIN v)
EmptyVec == [k \in {} |-> 0]

\* the vector holding the elements of a sequence
Vec(seq) == [k \in 0 .. Len(seq) - 1 |-> seq[k + 1]]

\* the first n elements of a vector, each computed once, as a sequence
RECURSIVE collected(_, _)
collected(v, n) == IF n = 0 THEN << >> ELSE Append(collected(v, n - 1), v[n - 1])

\* the vector of the first n elements of v, each computed once
stored(v, n) == Vec(collected(v, n))

\* Vec::resize(new_len, value)
VecResize(v, new_len, value) ==
    [k \in 0 .. new_len - 1 |-> IF k \in DOMAIN v THEN v[k] ELSE value]

\* NeighborGrid::ensure_layout
ensure_layout(g, count, width, height) ==
    LET w == Max2(width, MIN_BOUND)
        h == Max2(height, MIN_BOUND)
        cols == Max2(CeilDiv(w, g.cell_size), 1)
        rows == Max2(CeilDiv(h, g.cell_size), 1)
        grid_size == cols * rows
        relayout == cols # g.cols \/ rows # g.rows
    IN  [ g EXCEPT
            !.width = w, !.height = h, !.particle_count = count,
            !.cols = IF relayout THEN cols ELSE g.cols,
            !.rows = IF relayout THEN rows ELSE g.rows,
            !.head = IF relayout THEN VecResize(g.head, grid_size, INVALID_INDEX)
                     ELSE g.head,
            !.next = IF VecLen(g.next) # count
                     THEN VecResize(g.next, count, INVALID_INDEX) ELSE g.next,
            !.cached_x = IF VecLen(g.cached_x) # count
                         THEN VecResize(g.cached_x, count, 0) ELSE g.cached_x,
            !.cached_y = IF VecLen(g.cached_x) # count
                         THEN VecResize(g.cached_y, count, 0) ELSE g.cached_y ]

\* NeighborGrid::new
NeighborGrid_new(count, width, height, cell_size) ==
    ensure_layout(
        [ cell_size |-> Max2(cell_size, MIN_CELL_SIZE),
          width |-> Max2(width, MIN_BOUND), height |-> Max2(height, MIN_BOUND),
          cols |-> 0, rows |-> 0, particle_count |-> 0,
          head |-> EmptyVec, next |-> EmptyVec,
          cached_x |-> EmptyVec, cached_y |-> EmptyVec ],
        count, Max2(width, MIN_BOUND), Max2(height, MIN_BOUND))

\* NeighborGrid::set_cell_size
set_cell_size(g, cell_size) ==
    ensure_layout([g EXCEPT !.cell_size = Max2(cell_size, MIN_CELL_SIZE)],
                  g.particle_count, g.width, g.height)

\* NeighborGrid::cell_x, cell_y
cell_x(g, x) == Min2(Max2(FloorDiv(x, g.cell_size), 0), g.cols - 1)
cell_y(g, y) == Min2(Max2(FloorDiv(y, g.cell_size), 0), g.rows - 1)

\* NeighborGrid::cell_index_for_position
cell_index_for_position(g, x, y) == cell_y(g, y) * g.cols + cell_x(g, x)

\* the insertion loop of rebuild over the agents i .. count - 1, in
\* ascending order: the first half of the range, then the second
RECURSIVE rebuild_insert(_, _, _, _, _)
rebuild_insert(g, xs, ys, i, count) ==
    IF i >= count \/ ~evaluated(g) THEN g
    ELSE IF count - i = 1
    THEN LET cell == cell_index_for_position(g, xs[i], ys[i])
         IN  [g EXCEPT !.next[i] = g.head[cell], !.head[cell] = i]
    ELSE rebuild_insert(rebuild_insert(g, xs, ys, i, (i + count) \div 2),
                        xs, ys, (i + count) \div 2, count)

rebuild_unfilled(g, xs, ys, width, height) ==
    LET count == VecLen(xs)
        g1 == ensure_layout(g, count, Max2(width, MIN_BOUND), Max2(height, MIN_BOUND))
    IN  IF count = 0 THEN g1
        ELSE rebuild_insert(
                 [g1 EXCEPT !.cached_x = [k \in DOMAIN g1.cached_x |-> xs[k]],
                            !.cached_y = [k \in DOMAIN g1.cached_y |-> ys[k]]],
                 xs, ys, 0, count)

\* NeighborGrid::rebuild; xs and ys are the slices passed, of equal length
rebuild(g, xs, ys, width, height) ==
    LET count == VecLen(xs)
        g1 == ensure_layout(g, count, Max2(width, MIN_BOUND), Max2(height, MIN_BOUND))
        g2 == [g1 EXCEPT !.head = [k \in DOMAIN g1.head |-> INVALID_INDEX]]
    IN  IF count = 0 THEN g2
        ELSE rebuild_insert(
                 [g2 EXCEPT !.cached_x = [k \in DOMAIN g2.cached_x |-> xs[k]],
                            !.cached_y = [k \in DOMAIN g2.cached_y |-> ys[k]]],
                 xs, ys, 0, count)

\* neighbor_grid.rs wrap_cell_index
wrap_cell_index(index, len) == index % len

\* neighbor_grid.rs wrapped_delta
wrapped_delta(delta, world_extent) ==
    LET half_extent == world_extent \div 2
    IN  IF delta > half_extent THEN delta - world_extent
        ELSE IF delta < 0 - half_extent THEN delta + world_extent
        ELSE delta

RECURSIVE scan_from_any(_, _, _, _, _, _, _, _)
scan_from_any(g, candidate, i, x, y, radius_sq, wrap_x, wrap_y) ==
    IF candidate = INVALID_INDEX THEN <<>>
    ELSE (IF candidate # i THEN <<candidate>> ELSE <<>>)
         \o scan_from_any(g, g.next[candidate], i, x, y, radius_sq, wrap_x, wrap_y)

\* NeighborGrid::scan_cell: the candidates handed to the callback, in the
\* order of the bucket list, walking from candidate
RECURSIVE scan_from(_, _, _, _, _, _, _, _)
scan_from(g, candidate, i, x, y, radius_sq, wrap_x, wrap_y) ==
    IF candidate = INVALID_INDEX THEN <<>>
    ELSE LET raw_dx == g.cached_x[candidate] - x
             raw_dy == g.cached_y[candidate] - y
             dx == IF wrap_x THEN wrapped_delta(raw_dx, g.width) ELSE raw_dx
             dy == IF wrap_y THEN wrapped_delta(raw_dy, g.height) ELSE raw_dy
             hit == candidate # i /\ dx * dx + dy * dy <= radius_sq
         IN  (IF hit THEN <<candidate>> ELSE <<>>)
             \o scan_from(g, g.next[candidate], i, x, y, radius_sq, wrap_x, wrap_y)

scan_cell(g, cx, cy, i, x, y, radius_sq, wrap_x, wrap_y) ==
    scan_from(g, g.head[cy * g.cols + cx], i, x, y, radius_sq, wrap_x, wrap_y)

\* the cells of one row of the scan, in order: with wrap the offsets
\* -cell_radius ..= cell_radius through wrap_cell_index, else min_x ..= max_x
RECURSIVE scan_row(_, _, _, _, _, _, _, _, _, _, _)
scan_row(g, cy, k, last, base, i, x, y, radius_sq, wrap_x, wrap_y) ==
    IF k > last THEN <<>>
    ELSE LET cx == IF wrap_x THEN wrap_cell_index(base + k, g.cols) ELSE k
         IN  scan_cell(g, cx, cy, i, x, y, radius_sq, wrap_x, wrap_y)
             \o scan_row(g, cy, k + 1, last, base, i, x, y, radius_sq, wrap_x, wrap_y)

RECURSIVE scan_rows(_, _, _, _, _, _, _, _, _, _, _)
scan_rows(g, k, last, base_x, base_y, cell_radius, i, x, y, radius_sq, wrap) ==
    IF k > last THEN <<>>
    ELSE LET cy == IF wrap[2] THEN wrap_cell_index(base_y + k, g.rows) ELSE k
             min_x == Max2(base_x - cell_radius, 0)
             max_x == Min2(base_x + cell_radius, g.cols - 1)
             row == IF wrap[1]
                    THEN scan_row(g, cy, 0 - cell_radius, cell_radius, base_x,
                                  i, x, y, radius_sq, TRUE, wrap[2])
                    ELSE scan_row(g, cy, min_x, max_x, base_x,
                                  i, x, y, radius_sq, FALSE, wrap[2])
         IN  row \o scan_rows(g, k + 1, last, base_x, base_y, cell_radius,
                              i, x, y, radius_sq, wrap)

\* the scan of for_each_neighbor_with_wrap for agent i at (x, y)
scan_around(g, i, x, y, radius, wrap_x, wrap_y) ==
    LET r == Max2(radius, 0)
        radius_sq == r * r
        cell_radius == CeilDiv(r, g.cell_size)
        base_cell_x == cell_x(g, x)
        base_cell_y == cell_y(g, y)
        min_y == Max2(base_cell_y - cell_radius, 0)
        max_y == Min2(base_cell_y + cell_radius, g.rows - 1)
    IN  IF wrap_y
        THEN scan_rows(g, 0 - cell_radius, cell_radius, base_cell_x,
                       base_cell_y, cell_radius, i, x, y, radius_sq,
                       <<wrap_x, TRUE>>)
        ELSE scan_rows(g, min_y, max_y, base_cell_x, base_cell_y,
                       cell_radius, i, x, y, radius_sq, <<wrap_x, FALSE>>)

\* the element k of a vector, read as 0 past its end
read_or_zero(v, k) == IF k \in DOMAIN v THEN v[k] ELSE 0

for_each_neighbor_unguarded(g, i, radius, wrap_x, wrap_y) ==
    scan_around(g, i, read_or_zero(g.cached_x, i), read_or_zero(g.cached_y, i),
                radius, wrap_x, wrap_y)

\* NeighborGrid::for_each_neighbor_with_wrap: the sequence of indices the
\* callback is invoked with, in order
for_each_neighbor_with_wrap(g, i, radius, wrap_x, wrap_y) ==
    IF i >= g.particle_count \/ g.particle_count = 0 THEN <<>>
    ELSE scan_around(g, i, g.cached_x[i], g.cached_y[i], radius, wrap_x, wrap_y)

----------------------------------------------------------------------------
(* u32 arithmetic for hash_unit.  A u32 is the pair <<high, low>> of its    *)
(* 16-bit halves.                                                          *)

U16 == 65536

RECURSIVE xor16(_, _)
xor16(a, b) ==
    IF a = 0 THEN b
    ELSE IF b = 0 THEN a
    ELSE 2 * xor16(a \div 2, b \div 2) + ((a + b) % 2)

u32_xor(a, b) == << xor16(a[1], b[1]), xor16(a[2], b[2]) >>

RECURSIVE pow2(_)
pow2(k) == IF k = 0 THEN 1 ELSE 2 * pow2(k - 1)

\* x >> k for 0 < k <= 16
u32_shr(x, k) ==
    << x[1] \div pow2(k),
       (x[1] % pow2(k)) * pow2(16 - k) + x[2] \div pow2(k) >>

\* u32::wrapping_add
u32_wrapping_add(a, b) ==
    LET lo == a[2] + b[2]
    IN  << (a[1] + b[1] + lo \div U16) % U16, lo % U16 >>

\* (a * b) mod 2^16 for 16-bit a and b
mul16_low(a, b) == ((a % 256) * b + (((a \div 256) * b) % 256) * 256) % U16

\* a * b as a u32 for 16-bit a and b
mul16_wide(a, b) ==
    LET p == (a \div 256) * b
        q == (a % 256) * b
        low == (p % 256) * 256 + q
    IN  << (p \div 256 + low \div U16) % U16, low % U16 >>

\* u32::wrapping_mul
u32_wrapping_mul(a, b) ==
    LET ll == mul16_wide(a[2], b[2])
        cross == (mul16_low(a[1], b[2]) + mul16_low(a[2], b[1])) % U16
    IN  << (ll[1] + cross) % U16, ll[2] >>

u32_of(n) == << n \div U16, n % U16 >>

\* x ^= x >> k
xor_shift(x, k) == u32_xor(x, u32_shr(x, k))

\* (x as f32) / (u32::MAX as f32) * 2.0 - 1.0, in 1/1000
to_signed_unit(x) == RDiv(x[1] * 2000 + (x[2] * 2000) \div U16, U16) - 1000

\* lib.rs hash_unit: the avalanche hash of (step_index, particle_index, axis)
\* mapped to [-1, 1], in 1/1000
hash_unit(step_count, particle_index, axis) ==
    to_signed_unit(
        xor_shift(
            u32_wrapping_mul(
                xor_shift(
                    u32_wrapping_mul(
                        xor_shift(
                            u32_wrapping_add(
                                u32_wrapping_add(
                                    u32_wrapping_add(
                                        u32_wrapping_mul(u32_of(step_count),
                                                         <<40503, 31161>>),
                                        u32_wrapping_mul(u32_of(particle_index),
                                                         <<34283, 51819>>)),
                                    u32_wrapping_mul(u32_of(axis),
                                                     <<49842, 44597>>)),
                                <<10196, 60207>>),
                            15),
                        <<34283, 51819>>),
                    13),
                <<49842, 44597>>),
            16))

----------------------------------------------------------------------------
(* Elementary functions of f32, as fixed-point approximations.  Angles are *)
(* in milliradians, values in 1/1000.                                      *)

PI_MRAD == 3142 + 0
HALF_PI_MRAD == 1571 + 0

\* sin on [-pi/2, pi/2]: x - x^3/6 + x^5/120, from x, x^2 and x^3
sin_series(x, x2, x3) == x - RDiv(x3, 6) + RDiv(RDiv(x3 * x2, 1000), 120)

sin_from_square(x, x2) == sin_series(x, x2, RDiv(x2 * x, 1000))

sin_core(x) == sin_from_square(x, RDiv(x * x, 1000))

\* the angle reduced to (-pi, pi]
wrap_angle(a) == ((a + PI_MRAD) % (2 * PI_MRAD)) - PI_MRAD

\* the angle of (-pi, pi] folded into [-pi/2, pi/2], the sine kept
fold_angle(r) ==
    IF r > HALF_PI_MRAD THEN PI_MRAD - r
    ELSE IF r < 0 - HALF_PI_MRAD THEN 0 - PI_MRAD - r
    ELSE r

\* f32::sin
f32_sin(a) == f32_clamp(sin_core(fold_angle(wrap_angle(a))), 0 - 1000, 1000)

\* f32::cos
f32_cos(a) == f32_sin(a + HALF_PI_MRAD)

\* atan(z) for 0 <= z <= 1 in 1/1000: z*pi/4 + 0.273*z*(1 - z)
atan_of_ratio(z) ==
    RDiv(z * 785, 1000) + RDiv(273 * RDiv(z * (1000 - z), 1000), 1000)

\* atan(n / d) for 0 <= n <= d, d > 0
atan_unit(n, d) == atan_of_ratio(RDiv(n * 1000, d))

\* the angle a of the first quadrant moved to the quadrant of (x, y)
to_quadrant(a, y, x) ==
    IF y < 0 THEN (IF x < 0 THEN a - PI_MRAD ELSE 0 - a)
    ELSE (IF x < 0 THEN PI_MRAD - a ELSE a)

\* f32::atan2(y, x)
f32_atan2(y, x) ==
    to_quadrant(IF x = 0 /\ y = 0 THEN 0
                ELSE IF Abs(y) <= Abs(x) THEN atan_unit(Abs(y), Abs(x))
                ELSE HALF_PI_MRAD - atan_unit(Abs(x), Abs(y)),
                y, x)

\* f32::asin(v) for v in [-1, 1]
f32_asin(v) == f32_atan2(v, Sqrt(1000000 - v * v))

\* the series of exp(-x) to the fourth power, from x, x^2 and x^3
exp_series(x, x2, x3) ==
    1000 - x + RDiv(x2, 2) - RDiv(x3, 6) + RDiv(RDiv(x3 * x, 1000), 24)

exp_from_square(x, x2) == exp_series(x, x2, RDiv(x2 * x, 1000))

\* f32::exp(-x) for x >= 0 in 1/1000, x <= 0.6
f32_exp_neg(x) == exp_from_square(x, RDiv(x * x, 1000))

\* f32::to_radians of whole degrees
to_radians(deg) == RDiv(deg * 31416, 1800)

----------------------------------------------------------------------------
(* lib.rs: boundary handling and integration                               *)

HALF_WORLD == WORLD_SIZE \div 2

\* unit vectors, weights, velocities and forces are in 1/1000
UNIT == 1000 + 0

\* the largest component magnitude whose squares still add up exactly
SafeComponent == 20000 + 0

\* a vector divided by k
shrunk(x, y, z, k) == << RDiv(x, k), RDiv(y, k), RDiv(z, k) >>

\* a vector scaled down until its squares can be summed
prescale(x, y, z) ==
    IF Max2(Abs(x), Max2(Abs(y), Abs(z))) <= SafeComponent THEN << x, y, z >>
    ELSE shrunk(x, y, z,
                Max2(Abs(x), Max2(Abs(y), Abs(z))) \div SafeComponent + 1)

\* prescale of a vector
prescaled(v) == prescale(v[1], v[2], v[3])

\* lib.rs shortest_wrapped_delta
shortest_wrapped_delta(delta) ==
    IF delta > HALF_WORLD THEN delta - WORLD_SIZE
    ELSE IF delta < 0 - HALF_WORLD THEN delta + WORLD_SIZE
    ELSE delta

\* lib.rs axis_delta
axis_delta(delta, wrap) ==
    IF wrap THEN shortest_wrapped_delta(delta) ELSE delta

\* lib.rs project_axis_position
project_axis_position(position, bounce) ==
    IF position = NaN THEN NaN
    ELSE IF bounce THEN f32_clamp(position, 0, WORLD_SIZE)
    ELSE rem_euclid(position, WORLD_SIZE)

\* velocity * dt as a length: 1/1000 world per second times milliseconds
advance(velocity, dt) == RDiv(velocity * dt, 50)

\* position + velocity * dt, the position integrate_axis starts from
tentative_position(position, velocity, dt) ==
    IF position = NaN \/ velocity = NaN \/ dt = NaN THEN NaN
    ELSE position + advance(velocity, dt)

\* the reflection loop of integrate_axis: at most `left` more reflections
RECURSIVE reflect_loop(_, _, _)
reflect_loop(next_position, next_velocity, left) ==
    IF left = 0 \/ (next_position >= 0 /\ next_position <= WORLD_SIZE)
    THEN << next_position, next_velocity >>
    ELSE IF next_position < 0
    THEN reflect_loop(0 - next_position, 0 - next_velocity, left - 1)
    ELSE reflect_loop(WORLD_SIZE * 2 - next_position, 0 - next_velocity, left - 1)

\* the end of the reflection loop: next_position.clamp(0.0, WORLD_SIZE)
reflected(r) == << f32_clamp(r[1], 0, WORLD_SIZE), r[2] >>

\* an integration whose reflection mirrors the position and keeps the
\* velocity: the agent would leave the world again on the next step
integrate_keeping_velocity(start, velocity, bounce) ==
    IF start = NaN THEN << NaN, velocity >>
    ELSE IF ~bounce THEN << rem_euclid(start, WORLD_SIZE), velocity >>
    ELSE << reflected(reflect_loop(start, velocity, 4))[1], velocity >>

integrate_axis_keeping_velocity(position, velocity, dt, bounce) ==
    integrate_keeping_velocity(tentative_position(position, velocity, dt),
                               velocity, bounce)

\* an integration that treats every axis as a wall: a wrapping axis stops
\* the agent at the boundary and turns it round
integrate_walled(start, velocity) ==
    IF start = NaN THEN << NaN, velocity >>
    ELSE reflected(reflect_loop(start, velocity, 4))

integrate_axis_walled(position, velocity, dt, bounce) ==
    integrate_walled(tentative_position(position, velocity, dt), velocity)

\* integrate_axis from the tentative position.  A NaN operand makes the
\* position NaN: neither comparison of the loop holds for it, so the
\* velocity passes through unreflected.
integrate_from(start, velocity, bounce) ==
    IF start = NaN THEN << NaN, velocity >>
    ELSE IF ~bounce THEN << rem_euclid(start, WORLD_SIZE), velocity >>
    ELSE reflected(reflect_loop(start, velocity, 4))

\* lib.rs integrate_axis: << position, velocity >> after the step
integrate_axis(position, velocity, dt, bounce) ==
    integrate_from(tentative_position(position, velocity, dt), velocity, bounce)

\* math::normalize_to_magnitude of a vector
normalized(mode, v, magnitude, unit) ==
    normalize_to_magnitude(mode, v[1], v[2], v[3], magnitude, unit)

\* a - b and a + b by components
minus3(a, b) == << a[1] - b[1], a[2] - b[2], a[3] - b[3] >>
plus3(a, b) == << a[1] + b[1], a[2] + b[2], a[3] + b[3] >>

\* lib.rs steer_towards_3d: the desired direction at max_speed minus the
\* current velocity; `unit` is the unit of the desired vector
steer_towards_3d(mode, desired, current, max_speed, unit) ==
    minus3(normalized(mode, prescale(desired[1], desired[2], desired[3]),
                      max_speed, unit),
           current)

----------------------------------------------------------------------------
(* flock2.rs: geometry helpers.  Unit vectors are in 1/1000.               *)

\* flock2.rs dot3 of two vectors in 1/1000
dot3(ax, ay, az, bx, by, bz) == RDiv(ax * bx + ay * by + az * bz, UNIT)

\* flock2.rs cross3 of two vectors in 1/1000
cross3(ax, ay, az, bx, by, bz) ==
    << RDiv(ay * bz - az * by, UNIT),
       RDiv(az * bx - ax * bz, UNIT),
       RDiv(ax * by - ay * bx, UNIT) >>

\* (x, y, z) / len
divided(x, y, z, len) ==
    << RDiv(x * UNIT, len), RDiv(y * UNIT, len), RDiv(z * UNIT, len) >>

\* v / |v|
unit_vector(v) ==
    divided(v[1], v[2], v[3], Sqrt(v[1] * v[1] + v[2] * v[2] + v[3] * v[3]))

\* flock2.rs normalize_or_default; unit is the unit of (x, y, z)
normalize_or_default(x, y, z, default_x, default_y, default_z, unit) ==
    IF Max2(Abs(x), Max2(Abs(y), Abs(z))) > SafeComponent
    THEN unit_vector(prescale(x, y, z))
    ELSE IF x * x + y * y + z * z <= EpsSq(unit)
    THEN << default_x, default_y, default_z >>
    ELSE divided(x, y, z, Sqrt(x * x + y * y + z * z))

\* dot3, cross3 and normalize_or_default of vectors
dot(a, b) == dot3(a[1], a[2], a[3], b[1], b[2], b[3])
cross(a, b) == cross3(a[1], a[2], a[3], b[1], b[2], b[3])
unit_or(v, default, unit) ==
    normalize_or_default(v[1], v[2], v[3],
                         default[1], default[2], default[3], unit)

\* the reference heading_basis takes the right vector against
up_reference(fwd) ==
    IF Abs(dot3(fwd[1], fwd[2], fwd[3], 0, UNIT, 0)) > 970
    THEN << 0, 0, UNIT >> ELSE << 0, UNIT, 0 >>

basis_of_right(fwd, right) ==
    << fwd, unit_or(cross(fwd, right), << 0, UNIT, 0 >>, UNIT), right >>

basis_of_forward(fwd) ==
    basis_of_right(fwd,
        unit_or(cross(up_reference(fwd), fwd), << 0, 0, UNIT >>, UNIT))

\* flock2.rs heading_basis: << forward, up, right >>
heading_basis(heading_x, heading_y, heading_z) ==
    basis_of_forward(normalize_or_default(heading_x, heading_y, heading_z,
                                          UNIT, 0, 0, UNIT))

\* vector * cos + cross * sin + u * k by components
rodrigues_sum(vector, u, crossed, k, cos_theta, sin_theta) ==
    << RDiv(vector[1] * cos_theta + crossed[1] * sin_theta + u[1] * k, UNIT),
       RDiv(vector[2] * cos_theta + crossed[2] * sin_theta + u[2] * k, UNIT),
       RDiv(vector[3] * cos_theta + crossed[3] * sin_theta + u[3] * k, UNIT) >>

rodrigues(vector, u, cos_theta, sin_theta) ==
    rodrigues_sum(vector, u, cross(u, vector),
                  RDiv(dot(u, vector) * (UNIT - cos_theta), UNIT),
                  cos_theta, sin_theta)

\* flock2.rs rotate_vector_around_axis (Rodrigues), angle in milliradians
rotate_vector_around_axis(vector, axis, angle_radians) ==
    rodrigues(vector, unit_or(axis, << 0, UNIT, 0 >>, UNIT),
              f32_cos(angle_radians), f32_sin(angle_radians))

\* Flock2Config::fov_cos
fov_cos(c) == f32_cos(to_radians(c.field_of_view_deg) \div 2)

----------------------------------------------------------------------------
(* The simulation object.  A Sim is a record of the struct's fields; the    *)
(* per-agent arrays are functions on 0 .. count - 1.  Six fields record     *)
(* what the last call did and are not part of the struct: panicked (a       *)
(* clamp was invoked with min > max), debug_assert_failed (an assertion of  *)
(* debug_validate_state does not hold), tentative (the positions the last   *)
(* step's integration started from), phases (the integration loop, the      *)
(* resolver passes and the render mirror of the last call, in the order     *)
(* they ran), dt_used (the time increment given to that integration) and    *)
(* corrections (the pairs << i, j >> the resolver of the last call moved,   *)
(* in the order it moved them).                                             *)

ModelKinds == { "Classic", "Flock2Social", "Flock2SocialFlight",
                "Flock2LiteSocial", "Flock2LiteSocialFlight" }

Agents(s) == 0 .. s.count - 1
Active(s) == 0 .. s.active_count - 1

Filled(n, v) == [k \in 0 .. n - 1 |-> v]

\* no integration has run in the last call
NoAxisTrace == [velocity |-> NaN, start |-> NaN, position |-> NaN,
                out_velocity |-> NaN]
NoTentative(n) ==
    [k \in 0 .. n - 1 |-> << NoAxisTrace, NoAxisTrace, NoAxisTrace >>]

\* what one call of integrate_axis was given and what it returned
axis_trace(position, velocity, dt, returned) ==
    [velocity |-> velocity,
     start |-> tentative_position(position, velocity, dt),
     position |-> returned[1],
     out_velocity |-> returned[2]]

\* the heading array as the model switch leaves it: the direction of the
\* velocity, planar while depth mode is off
initial_heading(vx, vy) == normalize_or_default(vx, vy, 0, UNIT, 0, 0, UNIT)

\* Sim::new.  The positions and velocities are the draws of Lcg32: xs, ys,
\* zs in [0, WORLD_SIZE), a planar velocity of speed within
\* [min_speed, max_speed] and a z velocity within 0.35 of that speed.
Sim_new(count, xs, ys, zs, vxs, vys, vzs, width, height) ==
    [ count |-> count,
      active_count |-> count,
      width |-> Max2(width, MIN_BOUND),
      height |-> Max2(height, MIN_BOUND),
      config |-> SimConfig_default,
      flock2_config |-> Flock2Config_default,
      model_kind |-> "Classic",
      bounce_x |-> FALSE, bounce_y |-> FALSE, bounce_z |-> FALSE,
      z_mode_enabled |-> FALSE,
      z_force_scale |-> DEFAULT_Z_FORCE_SCALE,
      pos_x |-> xs, pos_y |-> ys, pos_z |-> zs,
      vel_x |-> vxs, vel_y |-> vys, vel_z |-> vzs,
      accel_x |-> Filled(count, 0),
      accel_y |-> Filled(count, 0),
      accel_z |-> Filled(count, 0),
      heading_x |-> [i \in 0 .. count - 1 |-> initial_heading(vxs[i], vys[i])[1]],
      heading_y |-> [i \in 0 .. count - 1 |-> initial_heading(vxs[i], vys[i])[2]],
      heading_z |-> Filled(count, 0),
      render_xy |-> [k \in 0 .. 2 * count - 1 |->
                        IF k % 2 = 0 THEN xs[k \div 2] ELSE ys[k \div 2]],
      render_z |-> Filled(count, DEFAULT_Z_LAYER),
      neighbor_grid |-> NeighborGrid_new(count, WORLD_SIZE, WORLD_SIZE,
                                         SimConfig_default.neighbor_radius),
      neighbors_visited_last_step |-> 0,
      step_index |-> 0,
      panicked |-> FALSE,
      debug_assert_failed |-> FALSE,
      tentative |-> NoTentative(count),
      phases |-> << >>,
      dt_used |-> 0,
      corrections |-> << >> ]

\* the state at the start of a call: nothing has run in it yet
Quiet(s) ==
    [s EXCEPT !.tentative = NoTentative(s.count), !.phases = << >>,
              !.dt_used = 0, !.corrections = << >>]

\* Sim::set_config
set_config(s, sep_weight, align_weight, coh_weight, neighbor_radius, separation_radius, min_speed, max_speed, max_force) ==
    LET raw == [ s.config EXCEPT
                   !.sep_weight = sep_weight,
                   !.align_weight = align_weight,
                   !.coh_weight = coh_weight,
                   !.neighbor_radius = neighbor_radius,
                   !.separation_radius = separation_radius,
                   !.min_speed = min_speed,
                   !.max_speed = max_speed,
                   !.max_force = max_force ]
        clean == SimConfig_sanitize(raw)
    IN  IF SimConfig_sanitize_panics(raw)
        THEN [Quiet(s) EXCEPT !.panicked = TRUE]
        ELSE [Quiet(s) EXCEPT
                !.config = clean,
                !.neighbor_grid = set_cell_size(s.neighbor_grid,
                                                clean.neighbor_radius)]

\* Sim::set_z_mode
set_z_mode(s, enabled) ==
    IF ~enabled
    THEN [Quiet(s) EXCEPT
            !.z_mode_enabled = FALSE,
            !.pos_z = Filled(s.count, DEFAULT_Z_LAYER),
            !.vel_z = Filled(s.count, 0),
            !.accel_z = Filled(s.count, 0),
            !.render_z = Filled(s.count, DEFAULT_Z_LAYER)]
    ELSE [Quiet(s) EXCEPT
            !.z_mode_enabled = TRUE,
            !.render_z = s.pos_z]

\* Sim::set_z_force_scale
set_z_force_scale(s, scale) ==
    [Quiet(s) EXCEPT !.z_force_scale =
        clamp_finite(scale, MIN_Z_FORCE_SCALE, MAX_Z_FORCE_SCALE,
                     DEFAULT_Z_FORCE_SCALE)]

\* Sim::set_bounce_bounds
set_bounce_bounds(s, enabled) ==
    [Quiet(s) EXCEPT !.bounce_x = enabled, !.bounce_y = enabled,
                     !.bounce_z = enabled]

\* Sim::set_axis_bounce
set_axis_bounce(s, bx, by, bz) ==
    [Quiet(s) EXCEPT !.bounce_x = bx, !.bounce_y = by, !.bounce_z = bz]

\* Sim::set_math_mode
set_math_mode(s, mode) ==
    [Quiet(s) EXCEPT !.config.math_mode = MathMode_from_u32(mode)]

\* Sim::set_max_neighbors_sampled
set_max_neighbors_sampled(s, max_neighbors) ==
    [Quiet(s) EXCEPT !.config.max_neighbors_sampled = max_neighbors]

\* Sim::set_max_force
set_max_force(s, max_force) ==
    [Quiet(s) EXCEPT !.config.max_force =
        clamp_finite(max_force, MIN_MAX_FORCE, MAX_MAX_FORCE, DEFAULT_MAX_FORCE)]

\* Sim::set_min_distance
set_min_distance(s, min_distance) ==
    [Quiet(s) EXCEPT !.config.soft_min_distance =
        clamp_finite(min_distance, MIN_MIN_DISTANCE, MAX_MIN_DISTANCE,
                     DEFAULT_SOFT_MIN_DISTANCE)]

\* a hard-threshold setter that shares one threshold between the two
\* parameters: the coupling the independence of the thresholds excludes
set_shared_min_distance(s, min_distance) ==
    [Quiet(s) EXCEPT
        !.config.hard_min_distance =
            clamp_finite(min_distance, MIN_MIN_DISTANCE, MAX_MIN_DISTANCE,
                         DEFAULT_HARD_MIN_DISTANCE),
        !.config.soft_min_distance =
            clamp_finite(min_distance, MIN_MIN_DISTANCE, MAX_MIN_DISTANCE,
                         DEFAULT_HARD_MIN_DISTANCE)]

\* Sim::set_hard_min_distance
set_hard_min_distance(s, min_distance) ==
    [Quiet(s) EXCEPT !.config.hard_min_distance =
        clamp_finite(min_distance, MIN_MIN_DISTANCE, MAX_MIN_DISTANCE,
                     DEFAULT_HARD_MIN_DISTANCE)]

\* Sim::set_jitter_strength
set_jitter_strength(s, jitter_strength) ==
    [Quiet(s) EXCEPT !.config.jitter_strength =
        clamp_finite(jitter_strength, MIN_JITTER_STRENGTH, MAX_JITTER_STRENGTH,
                     DEFAULT_JITTER_STRENGTH)]

\* Sim::set_drag
set_drag(s, drag) ==
    [Quiet(s) EXCEPT !.config.drag =
        clamp_finite(drag, MIN_DRAG, MAX_DRAG, DEFAULT_DRAG)]

\* Sim::set_bounds
set_bounds(s, width, height) ==
    [Quiet(s) EXCEPT !.width = Max2(width, MIN_BOUND),
                     !.height = Max2(height, MIN_BOUND)]

\* Sim::set_active_count
set_active_count(s, active_count) ==
    [Quiet(s) EXCEPT !.active_count = Min2(active_count, s.count)]

\* the getters
min_distance(s) == s.config.soft_min_distance
hard_min_distance(s) == s.config.hard_min_distance
\* (the getter neighbors_visited_last_step; the name is the field's below)
visited_last_step(s) == s.neighbors_visited_last_step

----------------------------------------------------------------------------
(* model_classic.rs: the classic steering model                            *)

\* the shape attractor pull on agent i: nothing while the attractor weight
\* is negligible, and no setter changes that weight
shape_attractor_force(s, i) == << 0, 0, 0 >>

\* a * dt for dt in milliseconds
times_dt(a, dt) == IF a = NaN \/ dt = NaN THEN NaN ELSE RDiv(a * dt, 1000)

\* a * b for b in 1/1000
scaled(a, b) ==
    IF a = NaN \/ b = NaN THEN NaN
    ELSE IF Abs(a) > 400000 THEN RDiv(a, 1000) * b
    ELSE RDiv(a * b, 1000)

\* dx / dist_sq in 1/1000 per world unit, for lengths in 1/20000
over_dist_sq(dx, dist_sq) ==
    RDiv(dx * WORLD_SIZE, Max2(dist_sq \div 100, 1)) * 10

\* 1 - dist_sq / min_distance_sq in 1/1000
shortfall_ratio(dist_sq, min_distance_sq) ==
    IF min_distance_sq < 2000000
    THEN RDiv((min_distance_sq - dist_sq) * 1000, min_distance_sq)
    ELSE RDiv(min_distance_sq - dist_sq, min_distance_sq \div 1000)

\* the accumulators of compute_boids_acceleration before the neighbour pass
boids_start ==
    [ neighbor_samples |-> 0, neighbor_count |-> 0, sep_count |-> 0,
      sep |-> << 0, 0, 0 >>, align |-> << 0, 0, 0 >>, coh |-> << 0, 0, 0 >> ]

\* the offset from agent i to agent j under the boundary policy
offset(s, i, j) ==
    << axis_delta(s.pos_x[j] - s.pos_x[i], ~s.bounce_x),
       axis_delta(s.pos_y[j] - s.pos_y[i], ~s.bounce_y),
       IF s.z_mode_enabled
       THEN axis_delta(s.pos_z[j] - s.pos_z[i], ~s.bounce_z) ELSE 0 >>

\* a vector with its z component dropped while depth mode is off
flat(s, v) == << v[1], v[2], IF s.z_mode_enabled THEN v[3] ELSE 0 >>

\* the push of the soft minimum distance on a neighbour at offset d
hard_push(s, d, dist_sq, min_distance_sq) ==
    IF min_distance_sq > EPSILON_LEN_SQ /\ dist_sq < min_distance_sq
    THEN normalize_to_magnitude(s.config.math_mode, 0 - d[1], 0 - d[2],
             IF s.z_mode_enabled THEN 0 - d[3] ELSE 0,
             scaled(RDiv(s.config.soft_min_distance * 1000, WORLD_SIZE),
                    shortfall_ratio(dist_sq, min_distance_sq)),
             WORLD_SIZE)
    ELSE << 0, 0, 0 >>

\* the separation part of the callback
boids_separated(acc, s, d, dist_sq) ==
    IF dist_sq <= s.config.separation_radius * s.config.separation_radius
    THEN [acc EXCEPT
            !.sep = minus3(
                plus3(@, hard_push(s, d, dist_sq,
                          s.config.soft_min_distance * s.config.soft_min_distance)),
                << over_dist_sq(d[1], dist_sq), over_dist_sq(d[2], dist_sq),
                   over_dist_sq(d[3], dist_sq) >>),
            !.sep_count = @ + 1]
    ELSE acc

\* the alignment and cohesion part of the callback
boids_counted(acc, s, j, d) ==
    [acc EXCEPT
        !.neighbor_count = @ + 1,
        !.align = plus3(@, flat(s, << s.vel_x[j], s.vel_y[j], s.vel_z[j] >>)),
        !.coh = plus3(@, d)]

\* the callback once the neighbour is sampled and its distance is known
boids_measured(acc, s, j, d, dist_sq) ==
    IF \/ dist_sq <= EPSILON_LEN_SQ
       \/ dist_sq > s.config.neighbor_radius * s.config.neighbor_radius
    THEN acc
    ELSE boids_separated(boids_counted(acc, s, j, d), s, d, dist_sq)

boids_sampled(acc, s, j, d) ==
    boids_measured(acc, s, j, d, distance_sq_3d(d[1], d[2], d[3]))

\* the callback without the sampling cap
boids_visit_uncapped(s, i, acc, j) ==
    boids_sampled([acc EXCEPT !.neighbor_samples = @ + 1], s, j,
                  offset(s, i, j))

\* the neighbour callback of compute_boids_acceleration, called with j
boids_visit(s, i, acc, j) ==
    IF /\ s.config.max_neighbors_sampled > 0
       /\ acc.neighbor_samples >= s.config.max_neighbors_sampled
    THEN acc
    ELSE boids_sampled([acc EXCEPT !.neighbor_samples = @ + 1], s, j,
                       offset(s, i, j))

RECURSIVE boids_pass(_, _, _, _, _, _)
boids_pass(s, i, acc, found, lo, hi) ==
    IF lo > hi \/ ~evaluated(acc) THEN acc
    ELSE IF lo = hi THEN boids_visit(s, i, acc, found[lo])
    ELSE boids_pass(s, i, boids_pass(s, i, acc, found, lo, (lo + hi) \div 2),
                    found, (lo + hi) \div 2 + 1, hi)

\* the accumulator after the callback has been called with every
\* candidate of found
boids_over(s, i, found) == boids_pass(s, i, boids_start, found, 1, Len(found))

\* a vector divided by a count
averaged(v, n) == << RDiv(v[1], n), RDiv(v[2], n), RDiv(v[3], n) >>

\* a steering force times its weight, the z component also times the
\* z force scale
weighted(v, w, z_force_scale) ==
    << scaled(v[1], w), scaled(v[2], w), scaled(scaled(v[3], w), z_force_scale) >>

\* the three steering forces of compute_boids_acceleration
boids_sep_force(s, acc, current) ==
    IF acc.sep_count > 0
    THEN weighted(steer_towards_3d(s.config.math_mode,
                      averaged(acc.sep, acc.sep_count), current,
                      s.config.max_speed, UNIT),
                  s.config.sep_weight, s.z_force_scale)
    ELSE << 0, 0, 0 >>

boids_align_force(s, acc, current) ==
    IF acc.neighbor_count > 0
    THEN weighted(steer_towards_3d(s.config.math_mode,
                      averaged(acc.align, acc.neighbor_count), current,
                      s.config.max_speed, UNIT),
                  s.config.align_weight, s.z_force_scale)
    ELSE << 0, 0, 0 >>

boids_coh_force(s, acc, current) ==
    IF acc.neighbor_count > 0
    THEN weighted(steer_towards_3d(s.config.math_mode,
                      averaged(acc.coh, acc.neighbor_count), current,
                      s.config.max_speed, WORLD_SIZE),
                  s.config.coh_weight, s.z_force_scale)
    ELSE << 0, 0, 0 >>

\* the jitter force on agent i
boids_jitter(s, i) ==
    IF s.config.jitter_strength > 0
    THEN flat(s, << scaled(hash_unit(s.step_index, i, 0), s.config.jitter_strength),
                    scaled(hash_unit(s.step_index, i, 1), s.config.jitter_strength),
                    scaled(hash_unit(s.step_index, i, 2), s.config.jitter_strength) >>)
    ELSE << 0, 0, 0 >>

\* the shape attractor force with its z component scaled
boids_shape(shape, z_force_scale) ==
    << shape[1], shape[2], scaled(shape[3], z_force_scale) >>

\* the force on agent i before the limit
boids_force(s, i, acc, current) ==
    plus3(plus3(flat(s, plus3(plus3(boids_sep_force(s, acc, current),
                                    boids_align_force(s, acc, current)),
                              boids_coh_force(s, acc, current))),
                boids_jitter(s, i)),
          boids_shape(shape_attractor_force(s, i), s.z_force_scale))

\* math::limit_magnitude_3d of a vector
limited(mode, v, max_magnitude) ==
    limit_magnitude_3d(mode, v[1], v[2], v[3], max_magnitude)

with_count(f, neighbor_count) == << f[1], f[2], f[3], neighbor_count >>

boids_acceleration(s, i, acc) ==
    with_count(limited(s.config.math_mode,
                       boids_force(s, i, acc,
                           flat(s, << s.vel_x[i], s.vel_y[i], s.vel_z[i] >>)),
                       s.config.max_force),
               acc.neighbor_count)

\* Sim::compute_boids_acceleration: << fx, fy, fz, neighbor_count >>
compute_boids_acceleration(s, i) ==
    boids_acceleration(s, i,
        boids_over(s, i,
            for_each_neighbor_with_wrap(s.neighbor_grid, i,
                s.config.neighbor_radius, ~s.bounce_x, ~s.bounce_y)))

----------------------------------------------------------------------------
(* lib.rs: the hard minimum distance resolver, the render mirror and the   *)
(* debug validation                                                        *)

\* a variant that keeps every report of a j > i
RECURSIVE resolver_neighbors_repeated(_, _, _, _)
resolver_neighbors_repeated(found, i, k, kept) ==
    IF k > Len(found) THEN kept
    ELSE resolver_neighbors_repeated(found, i, k + 1,
             IF found[k] > i THEN Append(kept, found[k]) ELSE kept)

\* the neighbours the resolver keeps for agent i: each j > i once, in the
\* order the grid reports them
RECURSIVE resolver_neighbors(_, _, _, _)
resolver_neighbors(found, i, k, kept) ==
    IF k > Len(found) THEN kept
    ELSE LET j == found[k]
             seen == \E m \in 1 .. Len(kept) : kept[m] = j
         IN  resolver_neighbors(found, i, k + 1,
                 IF j > i /\ ~seen THEN Append(kept, j) ELSE kept)

\* the direction the resolver separates a coincident pair along; the third
\* index is i ^ j
coincident_normal(s, i, j) ==
    unit_or(flat(s, << hash_unit(s.step_index, i, 0),
                       hash_unit(s.step_index, j, 1),
                       hash_unit(s.step_index, xor16(i, j), 2) >>),
            << UNIT, 0, 0 >>, UNIT)

\* a push with the operands of the shortfall exchanged: it is never positive
\* below the hard minimum distance, so no pair would be separated
push_amount_reversed(hard_distance, dist) ==
    Min2(RDiv(dist - hard_distance, HARD_CONSTRAINT_RELAXATION_DIV),
         HARD_CONSTRAINT_MAX_PUSH)

\* (hard_min_distance - dist) * 0.5 * HARD_CONSTRAINT_RELAXATION, capped
push_amount(hard_distance, dist) ==
    Min2(RDiv(hard_distance - dist, HARD_CONSTRAINT_RELAXATION_DIV),
         HARD_CONSTRAINT_MAX_PUSH)

\* the unit normal and the distance of a pair at offset d
pair_normal(s, i, j, d, dist) ==
    IF dist > 0 THEN flat(s, divided(d[1], d[2], d[3], dist))
    ELSE coincident_normal(s, i, j)

\* the positions of the pair moved apart by m
pushed_apart(s, i, j, m) ==
    [s EXCEPT
        !.corrections = Append(@, << i, j >>),
        !.pos_x = [@ EXCEPT
            ![i] = project_axis_position(s.pos_x[i] - m[1], s.bounce_x),
            ![j] = project_axis_position(s.pos_x[j] + m[1], s.bounce_x)],
        !.pos_y = [@ EXCEPT
            ![i] = project_axis_position(s.pos_y[i] - m[2], s.bounce_y),
            ![j] = project_axis_position(s.pos_y[j] + m[2], s.bounce_y)],
        !.pos_z = IF s.z_mode_enabled
                  THEN [@ EXCEPT
            ![i] = project_axis_position(s.pos_z[i] - m[3], s.bounce_z),
            ![j] = project_axis_position(s.pos_z[j] + m[3], s.bounce_z)]
                  ELSE @]

\* n * push
push_vector(n, push) ==
    << RDiv(n[1] * push, UNIT), RDiv(n[2] * push, UNIT), RDiv(n[3] * push, UNIT) >>

pair_pushed(s, i, j, d, dist, push) ==
    IF push <= 0 THEN s
    ELSE pushed_apart(s, i, j, push_vector(pair_normal(s, i, j, d, dist), push))

pair_at_distance(s, i, j, d, dist) ==
    pair_pushed(s, i, j, d, dist, push_amount(s.config.hard_min_distance, dist))

pair_measured(s, i, j, d, dist_sq) ==
    IF dist_sq >= s.config.hard_min_distance * s.config.hard_min_distance
    THEN s
    ELSE pair_at_distance(s, i, j, d,
             IF dist_sq > EPSILON_LEN_SQ THEN Sqrt(dist_sq) ELSE 0)

pair_at_offset(s, i, j, d) ==
    pair_measured(s, i, j, d, distance_sq_3d(d[1], d[2], d[3]))

\* one pair of the resolver's inner loop
resolve_pair(s, i, j) == pair_at_offset(s, i, j, offset(s, i, j))

RECURSIVE resolve_pairs(_, _, _, _)
resolve_pairs(s, i, neighbors, k) ==
    IF k > Len(neighbors) THEN s
    ELSE resolve_pairs(resolve_pair(s, i, neighbors[k]), i, neighbors, k + 1)

RECURSIVE resolve_from(_, _)
resolve_from(s, i) ==
    IF i >= s.active_count THEN s
    ELSE resolve_from(
             resolve_pairs(s, i,
                 resolver_neighbors(
                     for_each_neighbor_with_wrap(s.neighbor_grid, i,
                         s.config.hard_min_distance, ~s.bounce_x, ~s.bounce_y),
                     i, 1, <<>>),
                 1),
             i + 1)

\* some active agent holds a NaN position
poisoned(s) ==
    \E i \in Active(s) :
        s.pos_x[i] = NaN \/ s.pos_y[i] = NaN \/ s.pos_z[i] = NaN

regridded_whole(s, cell_size) ==
    [s EXCEPT !.neighbor_grid =
        rebuild(set_cell_size(s.neighbor_grid, cell_size), s.pos_x, s.pos_y,
                WORLD_SIZE, WORLD_SIZE)]

\* the grid rebuilt over the active agents with the given cell size
regridded(s, cell_size) ==
    [s EXCEPT !.neighbor_grid =
        rebuild(set_cell_size(s.neighbor_grid, cell_size),
                [i \in Active(s) |-> s.pos_x[i]],
                [i \in Active(s) |-> s.pos_y[i]],
                WORLD_SIZE, WORLD_SIZE)]

\* Sim::resolve_hard_min_distance_constraints.  With NaN positions every
\* comparison of the pass fails and the positions stay NaN.
resolve_hard_min_distance_constraints(s) ==
    IF s.config.hard_min_distance <= EPSILON \/ s.active_count < 2 THEN s
    ELSE IF poisoned(s) THEN [s EXCEPT !.phases = Append(@, "resolve")]
    ELSE resolve_from(regridded([s EXCEPT !.phases = Append(@, "resolve")],
                                s.config.hard_min_distance), 0)

\* Sim::sync_render_buffers
sync_render_buffers(s) ==
    [s EXCEPT
        !.phases = Append(@, "mirror"),
        !.render_xy = [k \in DOMAIN s.render_xy |->
            IF k \div 2 < s.active_count
            THEN (IF k % 2 = 0 THEN s.pos_x[k \div 2] ELSE s.pos_y[k \div 2])
            ELSE s.render_xy[k]],
        !.render_z = [i \in Agents(s) |->
            IF i < s.active_count THEN s.pos_z[i] ELSE s.render_z[i]]]

in_world(p) == p >= 0 /\ p <= WORLD_SIZE

\* the assertions of debug_validate_state
state_is_valid(s) ==
    \A i \in Agents(s) :
        /\ is_finite(s.pos_x[i]) /\ is_finite(s.pos_y[i]) /\ is_finite(s.pos_z[i])
        /\ is_finite(s.vel_x[i]) /\ is_finite(s.vel_y[i]) /\ is_finite(s.vel_z[i])
        /\ is_finite(s.accel_x[i]) /\ is_finite(s.accel_y[i])
        /\ is_finite(s.accel_z[i])
        /\ in_world(s.pos_x[i]) /\ in_world(s.pos_y[i]) /\ in_world(s.pos_z[i])
        /\ is_finite(s.render_z[i])

\* Sim::debug_validate_state: a debug build panics on a failed assertion,
\* a release build carries on
debug_validate_state(s) ==
    IF state_is_valid(s) THEN s ELSE [s EXCEPT !.debug_assert_failed = TRUE]

----------------------------------------------------------------------------
(* model_classic.rs: step_classic                                          *)

\* the steering fast path: no force can be produced
steering_disabled(c) ==
    \/ c.max_force <= EPSILON
    \/ /\ c.sep_weight <= EPSILON
       /\ c.align_weight <= EPSILON
       /\ c.coh_weight <= EPSILON
       /\ c.jitter_strength <= EPSILON
       /\ c.shape_attractor_weight <= EPSILON

\* exp(-drag * dt) in 1/1000
drag_damping(c, dt) ==
    IF c.drag <= EPSILON THEN UNIT
    ELSE IF dt = NaN THEN NaN
    ELSE f32_exp_neg(RDiv(c.drag * dt, 1000))

\* a velocity normalised to a speed; the z component is kept while depth
\* mode is off
rescaled(s, v, speed) ==
    << normalized(s.config.math_mode, flat(s, v), speed, UNIT)[1],
       normalized(s.config.math_mode, flat(s, v), speed, UNIT)[2],
       IF s.z_mode_enabled
       THEN normalized(s.config.math_mode, flat(s, v), speed, UNIT)[3]
       ELSE v[3] >>

speed_banded(s, v, speed_sq) ==
    IF speed_sq <= EPSILON_VEL_SQ
    THEN IF s.config.min_speed > 0 THEN << s.config.min_speed, 0, 0 >> ELSE v
    ELSE IF speed_sq < s.config.min_speed * s.config.min_speed
    THEN rescaled(s, v, s.config.min_speed)
    ELSE IF speed_sq > s.config.max_speed * s.config.max_speed
    THEN rescaled(s, v, s.config.max_speed)
    ELSE v

\* the speed band of step_classic applied to a velocity
classic_speed_band(s, vx, vy, vz) ==
    speed_banded(s, << vx, vy, vz >>,
        IF s.z_mode_enabled THEN vx * vx + vy * vy + vz * vz
        ELSE vx * vx + vy * vy)

\* (v + a * dt) * damping
damped(v, a_dt, damping) ==
    IF a_dt = NaN THEN NaN ELSE scaled(v + a_dt, damping)

classic_banded(s, v, steered) ==
    IF v[1] = NaN \/ v[2] = NaN \/ v[3] = NaN \/ ~steered THEN v
    ELSE classic_speed_band(s, v[1], v[2], v[3])

classic_damped(s, i, dt, steered, damping) ==
    classic_banded(s,
        << damped(s.vel_x[i],
                  IF steered THEN times_dt(s.accel_x[i], dt) ELSE 0, damping),
           damped(s.vel_y[i],
                  IF steered THEN times_dt(s.accel_y[i], dt) ELSE 0, damping),
           IF ~s.z_mode_enabled THEN 0
           ELSE damped(s.vel_z[i],
                  IF steered THEN times_dt(s.accel_z[i], dt) ELSE 0, damping) >>,
        steered)

\* the velocity of agent i that step_classic hands to integrate_axis
classic_velocity(s, i, dt, steered) ==
    classic_damped(s, i, dt, steered, drag_damping(s.config, dt))

\* the fields the integration loop writes, from what integrate_axis
\* returned for each active agent
integrated_fields(s, dt, v, done) ==
    [ pos_x |-> [i \in Agents(s) |->
                    IF i < s.active_count THEN done[i][1][1] ELSE s.pos_x[i]],
      pos_y |-> [i \in Agents(s) |->
                    IF i < s.active_count THEN done[i][2][1] ELSE s.pos_y[i]],
      pos_z |-> [i \in Agents(s) |->
                    IF i < s.active_count THEN done[i][3][1] ELSE s.pos_z[i]],
      vel_x |-> [i \in Agents(s) |->
                    IF i < s.active_count THEN done[i][1][2] ELSE s.vel_x[i]],
      vel_y |-> [i \in Agents(s) |->
                    IF i < s.active_count THEN done[i][2][2] ELSE s.vel_y[i]],
      vel_z |-> [i \in Agents(s) |->
                    IF i < s.active_count
                    THEN (IF s.z_mode_enabled THEN done[i][3][2] ELSE 0)
                    ELSE s.vel_z[i]],
      tentative |-> [i \in Agents(s) |->
                    IF i < s.active_count
                    THEN << axis_trace(s.pos_x[i], v[i][1], dt, done[i][1]),
                            axis_trace(s.pos_y[i], v[i][2], dt, done[i][2]),
                            IF s.z_mode_enabled
                            THEN axis_trace(s.pos_z[i], v[i][3], dt, done[i][3])
                            ELSE NoAxisTrace >>
                    ELSE << NoAxisTrace, NoAxisTrace, NoAxisTrace >>],
      dt |-> dt ]

\* the integration loop shared by the models: v[i] is the world velocity of
\* agent i
integrate_agents(s, dt, v) ==
    integrated_fields(s, dt, v,
        stored([i \in Active(s) |->
            << integrate_axis(s.pos_x[i], v[i][1], dt, s.bounce_x),
               integrate_axis(s.pos_y[i], v[i][2], dt, s.bounce_y),
               IF s.z_mode_enabled
               THEN integrate_axis(s.pos_z[i], v[i][3], dt, s.bounce_z)
               ELSE << DEFAULT_Z_LAYER, 0 >> >>], s.active_count))

\* the agents 0 .. n - 1 in the order of `for i in 0..n`
ascending(n) == [k \in 1 .. n |-> k - 1]

\* a variant that writes the result to the velocity of the agent as well
slot_written_to_velocity(s, i, a) ==
    [s EXCEPT !.accel_x[i] = a[1], !.accel_y[i] = a[2], !.accel_z[i] = a[3],
              !.vel_x[i] = @ + a[1], !.vel_y[i] = @ + a[2],
              !.neighbors_visited_last_step = @ + a[4]]

\* the body of a force loop for agent i: the result a of the agent is
\* written to its slot of accel and its neighbour count is added
slot_written(s, i, a) ==
    [s EXCEPT !.accel_x[i] = a[1], !.accel_y[i] = a[2], !.accel_z[i] = a[3],
              !.neighbors_visited_last_step = @ + a[4]]

\* the state after the acceleration loop of step_classic has processed the
\* agents order[lo] .. order[hi], one after the other: each agent computes
\* from the state as the loop has left it
RECURSIVE classic_pass(_, _, _, _)
classic_pass(s, order, lo, hi) ==
    IF lo > hi \/ ~evaluated(s) THEN s
    ELSE IF lo = hi
    THEN slot_written(s, order[lo], compute_boids_acceleration(s, order[lo]))
    ELSE classic_pass(classic_pass(s, order, lo, (lo + hi) \div 2),
                      order, (lo + hi) \div 2 + 1, hi)

\* the acceleration loop of step_classic
classic_accelerated(s) ==
    classic_pass(s, ascending(s.active_count), 1, s.active_count)

\* the fields m of the integration loop written to the state
with_motion(s, m) ==
    [s EXCEPT !.pos_x = m.pos_x, !.pos_y = m.pos_y, !.pos_z = m.pos_z,
              !.vel_x = m.vel_x, !.vel_y = m.vel_y, !.vel_z = m.vel_z,
              !.tentative = m.tentative,
              !.phases = Append(@, "integrate"), !.dt_used = m.dt]

\* the integration loop of step_classic
classic_integrated(s, dt, steered) ==
    with_motion(s, integrate_agents(s, dt,
                 stored([i \in Active(s) |-> classic_velocity(s, i, dt, steered)],
                        s.active_count)))

\* step_index.wrapping_add(1): the runs stay far below 2^32 steps
counted_step(s) ==
    [s EXCEPT !.step_index = @ + 1, !.neighbors_visited_last_step = 0]

finished_mirroring_first(s) ==
    debug_validate_state(
        resolve_hard_min_distance_constraints(sync_render_buffers(s)))

\* the end of every model's step
finished(s) ==
    debug_validate_state(
        sync_render_buffers(resolve_hard_min_distance_constraints(s)))

classic_steered(s, dt, steered) ==
    finished(classic_integrated(
        IF steered
        THEN classic_accelerated(regridded(s, s.config.neighbor_radius))
        ELSE s,
        dt, steered))

\* Sim::step_classic
step_classic(s, dt) ==
    classic_steered(counted_step(s), dt, ~steering_disabled(s.config))

----------------------------------------------------------------------------
(* model_flock2.rs: the flock-heading models.  Their velocities are in     *)
(* 1/1000 m/s; a world velocity is FLOCK2_WORLD_SCALE times that.          *)

\* the length of a vector
vector_length(v) == Sqrt(v[1] * v[1] + v[2] * v[2] + v[3] * v[3])

length3(x, y, z) ==
    IF Max2(Abs(x), Max2(Abs(y), Abs(z))) <= SafeComponent
    THEN Sqrt(x * x + y * y + z * z)
    ELSE (Max2(Abs(x), Max2(Abs(y), Abs(z))) \div SafeComponent + 1)
         * vector_length(prescale(x, y, z))

\* a vector times a scalar in 1/1000
scaled3(v, w) == << scaled(v[1], w), scaled(v[2], w), scaled(v[3], w) >>

\* v * FLOCK2_WORLD_SCALE and v / FLOCK2_WORLD_SCALE
to_world(v) == IF v = NaN THEN NaN ELSE RDiv(v, FLOCK2_WORLD_SCALE_DIV)
from_world(v) == IF v = NaN THEN NaN ELSE v * FLOCK2_WORLD_SCALE_DIV

\* the offset from agent i to the centroid
to_centroid(s, i, centroid) ==
    << axis_delta(centroid[1] - s.pos_x[i], ~s.bounce_x),
       axis_delta(centroid[2] - s.pos_y[i], ~s.bounce_y),
       IF s.z_mode_enabled
       THEN axis_delta(centroid[3] - s.pos_z[i], ~s.bounce_z) ELSE 0 >>

\* the forward vector both heading computations start from
forward_of(s, i) ==
    normalize_or_default(s.heading_x[i], s.heading_y[i],
                         IF s.z_mode_enabled THEN s.heading_z[i] ELSE 0,
                         UNIT, 0, 0, UNIT)

\* dx * inv_dist per axis: the direction of an offset of length dist
direction_of(d, dist, z_on) ==
    << RDiv(d[1] * UNIT, dist), RDiv(d[2] * UNIT, dist),
       IF z_on THEN RDiv(d[3] * UNIT, dist) ELSE 0 >>

\* whether the heading callbacks go past their range and field-of-view tests
\* for a neighbour at offset d
is_visible(s, fwd, d, dist_sq) ==
    /\ dist_sq > EPSILON_LEN_SQ
    /\ dist_sq <= s.flock2_config.neighbor_radius * s.flock2_config.neighbor_radius
    /\ dot(fwd, direction_of(d, Sqrt(dist_sq), s.z_mode_enabled))
           >= fov_cos(s.flock2_config)

\* the list with the entry inserted at position at + 1 and truncated
inserted_at(top, entry, at, topological_cap) ==
    IF at < topological_cap
    THEN SubSeq(SubSeq(top, 1, at) \o << entry >> \o SubSeq(top, at + 1, Len(top)),
                1, Min2(Len(top) + 1, topological_cap))
    ELSE top

\* a variant that appends the entry after the entries held
topological_insert_appending(top, dist_sq, j, topological_cap) ==
    inserted_at(top, << dist_sq, j >>, Len(top), topological_cap)

\* the sorted insertion of compute_flock2_heading: the list holds
\* << dist_sq, j >> by ascending distance, at most topological_cap long
topological_insert(top, dist_sq, j, topological_cap) ==
    inserted_at(top, << dist_sq, j >>,
                Cardinality({m \in 1 .. Len(top) : top[m][1] <= dist_sq}),
                topological_cap)

flock2_start ==
    [ nearest_index |-> INVALID_INDEX, nearest_dist_sq |-> PosInf,
      topological |-> << >>, visible_neighbors |-> 0, candidates_visited |-> 0 ]

flock2_measured(s, fwd, acc, j, d, dist_sq) ==
    IF ~is_visible(s, fwd, d, dist_sq) THEN acc
    ELSE [ nearest_index |-> IF dist_sq < acc.nearest_dist_sq
                             THEN j ELSE acc.nearest_index,
           nearest_dist_sq |-> Min2(dist_sq, acc.nearest_dist_sq),
           topological |-> topological_insert(acc.topological, dist_sq, j,
                               s.flock2_config.topological_neighbors),
           visible_neighbors |-> acc.visible_neighbors + 1,
           candidates_visited |-> acc.candidates_visited + 1 ]

flock2_seen(s, fwd, acc, j, d) ==
    flock2_measured(s, fwd, acc, j, d, distance_sq_3d(d[1], d[2], d[3]))

\* the neighbour callback of compute_flock2_heading
flock2_visit(s, i, fwd, acc, j) == flock2_seen(s, fwd, acc, j, offset(s, i, j))

RECURSIVE flock2_pass(_, _, _, _, _, _, _)
flock2_pass(s, i, fwd, acc, found, lo, hi) ==
    IF lo > hi \/ ~evaluated(acc) THEN acc
    ELSE IF lo = hi THEN flock2_visit(s, i, fwd, acc, found[lo])
    ELSE flock2_pass(s, i, fwd,
                     flock2_pass(s, i, fwd, acc, found, lo, (lo + hi) \div 2),
                     found, (lo + hi) \div 2 + 1, hi)

\* the accumulator after the callback has been called with every
\* candidate of found
flock2_over(s, i, fwd, found) ==
    flock2_pass(s, i, fwd, flock2_start, found, 1, Len(found))

\* a direction seen from the heading basis << forward, up, right >>:
\* << yaw, pitch >> in milliradians
local_angles(dir, basis) ==
    << f32_atan2(dot(dir, basis[3]), dot(dir, basis[1])),
       f32_asin(f32_clamp(dot(dir, basis[2]), 0 - UNIT, UNIT)) >>

\* the sum of value[j] over the agents j of the topological list
RECURSIVE sum_over(_, _, _, _)
sum_over(top, lo, hi, value) ==
    IF lo > hi THEN 0
    ELSE IF lo = hi THEN value[top[lo][2]]
    ELSE sum_over(top, lo, (lo + hi) \div 2, value)
         + sum_over(top, (lo + hi) \div 2 + 1, hi, value)

\* (boundary_count - visible) / boundary_count clamped to [0, 1], in 1/1000
boundary_ratio(boundary_count, visible) ==
    f32_clamp(RDiv((boundary_count - visible * 1000) * 1000, boundary_count),
              0, 1000)

\* (dt * 1000 / reaction_time_ms).clamp(0, 1) in 1/1000
reaction_gain(c, dt) ==
    IF dt = NaN THEN NaN
    ELSE f32_clamp(RDiv(dt * 1000, c.reaction_time_ms), 0, 1000)

\* the sum of the offsets from agent i to the agents of the topological list
RECURSIVE offset_sum(_, _, _, _, _)
offset_sum(s, i, top, lo, hi) ==
    IF lo > hi THEN << 0, 0, 0 >>
    ELSE IF lo = hi THEN offset(s, i, top[lo][2])
    ELSE plus3(offset_sum(s, i, top, lo, (lo + hi) \div 2),
               offset_sum(s, i, top, (lo + hi) \div 2 + 1, hi))

\* a pair of angles times a weight; the sum of two pairs
angles_scaled(a, w) == << scaled(a[1], w), scaled(a[2], w) >>
plus2(a, b) == << a[1] + b[1], a[2] + b[2] >>

\* the four weighted terms of the target yaw and pitch
avoid_angles(s, i, basis, acc) ==
    IF acc.nearest_index # INVALID_INDEX
    THEN angles_scaled(
             local_angles(
                 unit_or(minus3(<< 0, 0, 0 >>, offset(s, i, acc.nearest_index)),
                         << 0, 0, 0 >>, WORLD_SIZE),
                 basis),
             s.flock2_config.avoid_weight)
    ELSE << 0, 0 >>

align_angles(s, basis, top) ==
    IF Len(top) > 0
    THEN angles_scaled(
             local_angles(
                 unit_or(flat(s, averaged(<< sum_over(top, 1, Len(top), s.vel_x),
                                             sum_over(top, 1, Len(top), s.vel_y),
                                             sum_over(top, 1, Len(top), s.vel_z) >>,
                                          Len(top))),
                         << 0, 0, 0 >>, UNIT),
                 basis),
             s.flock2_config.align_weight)
    ELSE << 0, 0 >>

cohesion_angles(s, i, basis, top) ==
    IF Len(top) > 0
    THEN angles_scaled(
             local_angles(
                 unit_or(averaged(offset_sum(s, i, top, 1, Len(top)), Len(top)),
                         << 0, 0, 0 >>, WORLD_SIZE),
                 basis),
             s.flock2_config.cohesion_weight)
    ELSE << 0, 0 >>

\* fewer visible neighbours than boundary_count
near_boundary(c, visible) ==
    c.boundary_count > EPSILON /\ visible * 1000 < c.boundary_count

boundary_angles(s, i, centroid, basis, visible) ==
    IF near_boundary(s.flock2_config, visible)
    THEN angles_scaled(
             local_angles(
                 unit_or(to_centroid(s, i, centroid), << 0, 0, 0 >>, WORLD_SIZE),
                 basis),
             scaled(s.flock2_config.boundary_weight,
                    boundary_ratio(s.flock2_config.boundary_count, visible)))
    ELSE << 0, 0 >>

\* << target_yaw, target_pitch >>
target_angles(s, i, centroid, basis, acc) ==
    plus2(plus2(avoid_angles(s, i, basis, acc),
                align_angles(s, basis, acc.topological)),
          plus2(cohesion_angles(s, i, basis, acc.topological),
                boundary_angles(s, i, centroid, basis, acc.visible_neighbors)))

\* the yawed heading pitched about its own right vector and renormalised
pitched(s, yawed, pitch) ==
    unit_or(flat(s, rotate_vector_around_axis(yawed,
                        heading_basis(yawed[1], yawed[2], yawed[3])[3], pitch)),
            << UNIT, 0, 0 >>, UNIT)

\* the heading turned towards the target angles by the reaction gain
turned(s, fwd, basis, target, gain) ==
    pitched(s,
            rotate_vector_around_axis(fwd, basis[2], 0 - scaled(target[1], gain)),
            scaled(target[2], gain))

heading_from_pass(s, i, dt, centroid, fwd, basis, acc) ==
    IF dt = NaN THEN << NaN, NaN, NaN, acc.candidates_visited >>
    ELSE with_count(turned(s, fwd, basis,
                           target_angles(s, i, centroid, basis, acc),
                           reaction_gain(s.flock2_config, dt)),
                    acc.candidates_visited)

heading_from_forward(s, i, dt, centroid, fwd) ==
    heading_from_pass(s, i, dt, centroid, fwd,
        heading_basis(fwd[1], fwd[2], fwd[3]),
        flock2_over(s, i, fwd,
            for_each_neighbor_with_wrap(s.neighbor_grid, i,
                s.flock2_config.neighbor_radius, ~s.bounce_x, ~s.bounce_y)))

\* Sim::compute_flock2_heading: << hx, hy, hz, candidates_visited >>
compute_flock2_heading(s, i, dt, centroid) ==
    heading_from_forward(s, i, dt, centroid, forward_of(s, i))

lite_start ==
    [ sep |-> << 0, 0, 0 >>, align |-> << 0, 0, 0 >>, coh |-> << 0, 0, 0 >>,
      visible_count |-> 0, visited_count |-> 0 ]

\* dir / max(dist_sq, 1.0e-4) in 1/1000, for dist_sq in squared 1/20000
over_dist_sq_floor(dir, dist_sq) ==
    dir * RDiv(400000000, Max2(dist_sq, 40000))

\* the sums of the callback for a visible neighbour in direction dir
lite_counted(s, acc, j, dir, dist_sq) ==
    [ sep |-> minus3(acc.sep, << over_dist_sq_floor(dir[1], dist_sq),
                                 over_dist_sq_floor(dir[2], dist_sq),
                                 over_dist_sq_floor(dir[3], dist_sq) >>),
      align |-> plus3(acc.align,
                      unit_or(flat(s, << s.vel_x[j], s.vel_y[j], s.vel_z[j] >>),
                              << 0, 0, 0 >>, UNIT)),
      coh |-> plus3(acc.coh, dir),
      visible_count |-> acc.visible_count + 1,
      visited_count |-> acc.visited_count + 1 ]

lite_measured(s, fwd, acc, j, d, dist_sq) ==
    IF ~is_visible(s, fwd, d, dist_sq) THEN acc
    ELSE lite_counted(s, acc, j,
                      direction_of(d, Sqrt(dist_sq), s.z_mode_enabled), dist_sq)

lite_seen(s, fwd, acc, j, d) ==
    lite_measured(s, fwd, acc, j, d, distance_sq_3d(d[1], d[2], d[3]))

\* the neighbour callback of compute_flock2_lite_heading
lite_visit(s, i, fwd, acc, j) ==
    IF acc.visited_count >= Min2(s.flock2_config.topological_neighbors, 16)
    THEN acc
    ELSE lite_seen(s, fwd, acc, j, offset(s, i, j))

RECURSIVE lite_pass(_, _, _, _, _, _, _)
lite_pass(s, i, fwd, acc, found, lo, hi) ==
    IF lo > hi \/ ~evaluated(acc) THEN acc
    ELSE IF lo = hi THEN lite_visit(s, i, fwd, acc, found[lo])
    ELSE lite_pass(s, i, fwd,
                   lite_pass(s, i, fwd, acc, found, lo, (lo + hi) \div 2),
                   found, (lo + hi) \div 2 + 1, hi)

\* the accumulator after the callback has been called with every
\* candidate of found
lite_over(s, i, fwd, found) ==
    lite_pass(s, i, fwd, lite_start, found, 1, Len(found))

\* a sum divided by the visible count, when there is one
mean_of(v, n) == IF n > 0 THEN averaged(v, n) ELSE v

lite_boundary(s, i, centroid, visible) ==
    IF near_boundary(s.flock2_config, visible)
    THEN scaled3(unit_or(to_centroid(s, i, centroid), << 0, 0, 0 >>, WORLD_SIZE),
                 scaled(s.flock2_config.boundary_weight,
                        boundary_ratio(s.flock2_config.boundary_count, visible)))
    ELSE << 0, 0, 0 >>

\* the weighted sum the lite target heading is the direction of
lite_mix(s, i, centroid, acc) ==
    plus3(plus3(scaled3(acc.sep, s.flock2_config.avoid_weight),
                scaled3(mean_of(acc.align, acc.visible_count),
                        s.flock2_config.align_weight)),
          plus3(scaled3(mean_of(acc.coh, acc.visible_count),
                        s.flock2_config.cohesion_weight),
                lite_boundary(s, i, centroid, acc.visible_count)))

\* forward blended towards the target by the reaction gain
lite_blended(s, fwd, target, gain) ==
    unit_or(flat(s, plus3(scaled3(fwd, UNIT - gain), scaled3(target, gain))),
            flat(s, fwd), UNIT)

lite_from_pass(s, i, dt, centroid, fwd, acc) ==
    IF dt = NaN THEN << NaN, NaN, NaN, acc.visited_count >>
    ELSE with_count(
             lite_blended(s, fwd,
                 unit_or(flat(s, lite_mix(s, i, centroid, acc)), flat(s, fwd),
                         UNIT),
                 reaction_gain(s.flock2_config, dt)),
             acc.visited_count)

lite_from_forward(s, i, dt, centroid, fwd) ==
    lite_from_pass(s, i, dt, centroid, fwd,
        lite_over(s, i, fwd,
            for_each_neighbor_with_wrap(s.neighbor_grid, i,
                s.flock2_config.neighbor_radius, ~s.bounce_x, ~s.bounce_y)))

\* Sim::compute_flock2_lite_heading: << hx, hy, hz, visited_count >>
compute_flock2_lite_heading(s, i, dt, centroid) ==
    lite_from_forward(s, i, dt, centroid, forward_of(s, i))

\* the sum of the first n entries of an array
RECURSIVE sum_first(_, _)
sum_first(v, n) == IF n = 0 THEN 0 ELSE sum_first(v, n - 1) + v[n - 1]

\* the centroid of the active agents
centroid_of(s) ==
    << RDiv(sum_first(s.pos_x, s.active_count), s.active_count),
       RDiv(sum_first(s.pos_y, s.active_count), s.active_count),
       IF s.z_mode_enabled
       THEN RDiv(sum_first(s.pos_z, s.active_count), s.active_count)
       ELSE DEFAULT_Z_LAYER >>

\* force / mass
over_mass(force, mass) ==
    IF Abs(force) > 2000000 THEN RDiv(force, mass) * 1000
    ELSE RDiv(force * 1000, mass)

\* 0.5 * air_density * speed^2 for the faster of speed and min_speed
dynamic_pressure(c, fastest) ==
    RDiv(c.air_density * RDiv(RDiv(fastest * fastest, 1000), 10), 200)

\* dynamic_pressure * wing_area * factor
aero_magnitude(c, pressure, factor) ==
    RDiv(scaled(pressure, factor) * c.wing_area, 10000)

\* lift along up, drag against the velocity axis, thrust along the heading
\* and gravity
flight_force(s, h, up, v_axis, lift_mag, drag_mag) ==
    flat(s, plus3(minus3(scaled3(up, lift_mag), scaled3(v_axis, drag_mag)),
                  minus3(scaled3(h, s.flock2_config.thrust),
                         << 0, scaled(s.flock2_config.gravity,
                                      s.flock2_config.mass), 0 >>)))

flight_under_pressure(s, h, vel, speed, pressure) ==
    flight_force(s, h,
        heading_basis(h[1], h[2], IF s.z_mode_enabled THEN h[3] ELSE 0)[2],
        IF speed > EPSILON THEN flat(s, divided(vel[1], vel[2], vel[3], speed))
        ELSE h,
        aero_magnitude(s.flock2_config, pressure, s.flock2_config.lift_factor),
        aero_magnitude(s.flock2_config, pressure, s.flock2_config.drag_factor))

\* force / mass by components
flight_accel(s, force) ==
    flat(s, << over_mass(force[1], s.flock2_config.mass),
               over_mass(force[2], s.flock2_config.mass),
               over_mass(force[3], s.flock2_config.mass) >>)

flight_result(s, vel, a, dt) ==
    << a, flat(s, << vel[1] + times_dt(a[1], dt), vel[2] + times_dt(a[2], dt),
                     vel[3] + times_dt(a[3], dt) >>) >>

\* the velocity of the flight layer of step_flock2 for heading h, velocity
\* vel and clamped speed: << acceleration, velocity >>
flock2_flight(s, h, vel, speed, dt) ==
    flight_result(s, vel,
        flight_accel(s,
            flight_under_pressure(s, h, vel, speed,
                dynamic_pressure(s.flock2_config,
                                 Max2(speed, s.flock2_config.min_speed)))),
        dt)

\* a planar-or-spatial velocity brought to its clamped speed
banded(s, v) ==
    flat(s, normalized(s.config.math_mode, v,
                clamp_finite(length3(v[1], v[2], v[3]),
                             s.flock2_config.min_speed,
                             s.flock2_config.max_speed,
                             s.flock2_config.min_speed),
                UNIT))

\* the tail both flock steps share: the speed band; vel is the velocity
\* after the shape attractor pull
flock2_banded(s, vel) == banded(s, flat(s, vel))

\* a velocity after the pull of the shape attractor over dt
pulled(s, i, dt, v) ==
    flat(s, << v[1] + times_dt(shape_attractor_force(s, i)[1], dt),
               v[2] + times_dt(shape_attractor_force(s, i)[2], dt),
               v[3] + times_dt(shape_attractor_force(s, i)[3], dt) >>)

\* the heading blended towards the direction of the new velocity
agent_result(s, h, accel, v, stability_gain) ==
    [ heading |->
          flat(s, unit_or(flat(s, plus3(scaled3(h, UNIT - stability_gain),
                                        scaled3(unit_or(v, h, UNIT),
                                                stability_gain))),
                          << UNIT, 0, 0 >>, UNIT)),
      accel |-> accel,
      vel |-> v ]

agent_moved(s, i, dt, h, accel, velocity, stability_gain) ==
    agent_result(s, h, accel, flock2_banded(s, pulled(s, i, dt, velocity)),
                 stability_gain)

agent_flown(s, i, dt, h, flown) ==
    agent_moved(s, i, dt, h, flown[1], flown[2],
        f32_clamp(RDiv(s.flock2_config.dynamic_stability * dt * 60, 1000),
                  0, 1000))

agent_at_speed(s, i, dt, with_flight, h, vel, speed) ==
    IF with_flight
    THEN agent_flown(s, i, dt, h, flock2_flight(s, h, vel, speed, dt))
    ELSE agent_moved(s, i, dt, h, << 0, 0, 0 >>, flat(s, scaled3(h, speed)), 0)

\* the speed of an agent clamped to the band; a still agent takes min_speed
clamped_speed(c, raw_speed) ==
    f32_clamp(IF raw_speed <= EPSILON THEN c.min_speed ELSE raw_speed,
              c.min_speed, c.max_speed)

agent_with_velocity(s, i, dt, with_flight, h, vel) ==
    agent_at_speed(s, i, dt, with_flight, h, vel,
        clamped_speed(s.flock2_config, length3(vel[1], vel[2], vel[3])))

\* one agent of the second loop of step_flock2, next being the heading the
\* first loop computed: [heading, accel, vel] with vel in model units
flock2_agent(s, i, dt, with_flight, next) ==
    agent_with_velocity(s, i, dt, with_flight, flat(s, next),
                        flat(s, << s.vel_x[i], s.vel_y[i], s.vel_z[i] >>))

\* what a step with a NaN dt leaves of an agent: every value the step
\* derives from dt is NaN
flock2_agent_nan(s, with_flight, lite) ==
    [ heading |-> << NaN, NaN, IF s.z_mode_enabled THEN NaN ELSE 0 >>,
      accel |-> IF lite THEN << NaN, NaN, NaN >>
                ELSE IF with_flight
                THEN << NaN, NaN, IF s.z_mode_enabled THEN NaN ELSE 0 >>
                ELSE << 0, 0, 0 >>,
      vel |-> << NaN, NaN, IF s.z_mode_enabled THEN NaN ELSE 0 >> ]

\* the cruise speed after thrust, drag and climb over dt
lite_powered(c, cruise, h, dt, with_flight) ==
    IF with_flight
    THEN cruise + times_dt(c.thrust
                           - RDiv(scaled(RDiv(cruise * cruise, 1000),
                                         c.drag_factor), 100)
                           - RDiv(scaled(c.gravity, Max2(h[2], 0)), 50),
                           dt)
    ELSE cruise

lite_at_speed(s, i, dt, next, h, speed) ==
    [ heading |-> h, accel |-> next,
      vel |-> flock2_banded(s, pulled(s, i, dt, scaled3(h, speed))) ]

lite_with_heading(s, i, dt, with_flight, next, h) ==
    lite_at_speed(s, i, dt, next, h,
        f32_clamp(
            lite_powered(s.flock2_config,
                Max2(length3(s.vel_x[i], s.vel_y[i],
                             IF s.z_mode_enabled THEN s.vel_z[i] ELSE 0),
                     s.flock2_config.min_speed),
                h, dt, with_flight),
            s.flock2_config.min_speed, s.flock2_config.max_speed))

\* one agent of the second loop of step_flock2_lite
flock2_lite_agent(s, i, dt, with_flight, next) ==
    lite_with_heading(s, i, dt, with_flight, next, flat(s, next))

\* new[i] for the active agents, old[i] for the rest
kept(s, old, new) ==
    [i \in Agents(s) |-> IF i < s.active_count THEN new[i] ELSE old[i]]

\* the state after the second loop: r[i] is the result for agent i, m the
\* fields of the integration
flock2_written(s, r, m) ==
    [s EXCEPT
        !.heading_x = kept(s, @, [i \in Active(s) |-> r[i].heading[1]]),
        !.heading_y = kept(s, @, [i \in Active(s) |-> r[i].heading[2]]),
        !.heading_z = kept(s, @, [i \in Active(s) |-> r[i].heading[3]]),
        !.accel_x = kept(s, @, [i \in Active(s) |-> r[i].accel[1]]),
        !.accel_y = kept(s, @, [i \in Active(s) |-> r[i].accel[2]]),
        !.accel_z = kept(s, @, [i \in Active(s) |-> r[i].accel[3]]),
        !.pos_x = m.pos_x, !.pos_y = m.pos_y, !.pos_z = m.pos_z,
        !.vel_x = kept(s, @, [i \in Active(s) |-> from_world(m.vel_x[i])]),
        !.vel_y = kept(s, @, [i \in Active(s) |-> from_world(m.vel_y[i])]),
        !.vel_z = kept(s, @, [i \in Active(s) |-> from_world(m.vel_z[i])]),
        !.tentative = m.tentative,
        !.phases = Append(@, "integrate"), !.dt_used = m.dt]

\* the integration of the second loop, in world velocities
flock2_acted(s, dt, r) ==
    flock2_written(s, r,
        integrate_agents(s, dt,
            stored([i \in Active(s) |->
                       << to_world(r[i].vel[1]), to_world(r[i].vel[2]),
                          to_world(r[i].vel[3]) >>],
                   s.active_count)))

\* the heading the first loop left in the slot of agent i
next_heading(s, i) == << s.accel_x[i], s.accel_y[i], s.accel_z[i] >>

\* the second loop, from the headings the first left in accel
flock2_headed(s, dt, with_flight, lite) ==
    flock2_acted(s, dt,
        stored([i \in Active(s) |->
                   IF dt = NaN THEN flock2_agent_nan(s, with_flight, lite)
                   ELSE IF lite
                   THEN flock2_lite_agent(s, i, dt, with_flight, next_heading(s, i))
                   ELSE flock2_agent(s, i, dt, with_flight, next_heading(s, i))],
               s.active_count))

\* the state after the first loop has processed the agents order[lo] ..
\* order[hi], one after the other: each agent computes its heading from the
\* state as the loop has left it
RECURSIVE heading_pass(_, _, _, _, _, _, _)
heading_pass(s, dt, lite, centroid, order, lo, hi) ==
    IF lo > hi \/ ~evaluated(s) THEN s
    ELSE IF lo = hi
    THEN slot_written(s, order[lo],
             IF lite THEN compute_flock2_lite_heading(s, order[lo], dt, centroid)
             ELSE compute_flock2_heading(s, order[lo], dt, centroid))
    ELSE heading_pass(heading_pass(s, dt, lite, centroid, order, lo,
                                   (lo + hi) \div 2),
                      dt, lite, centroid, order, (lo + hi) \div 2 + 1, hi)

\* the two loops
flock2_around(s, dt, with_flight, lite, centroid) ==
    flock2_headed(
        heading_pass(s, dt, lite, centroid, ascending(s.active_count),
                     1, s.active_count),
        dt, with_flight, lite)

flock2_prepared(s, dt, with_flight, lite) ==
    debug_validate_state(sync_render_buffers(
        flock2_around(s, dt, with_flight, lite, centroid_of(s))))

\* the step with the sanitized configuration c
flock2_sanitized(s, c, dt, with_flight, lite) ==
    IF f32_clamp_panics(c.min_speed, c.max_speed)
    THEN [Quiet(s) EXCEPT !.panicked = TRUE, !.flock2_config = c]
    ELSE flock2_prepared(
             regridded([counted_step(s) EXCEPT !.flock2_config = c],
                       c.neighbor_radius),
             dt, with_flight, lite)

\* the body shared by step_flock2 and step_flock2_lite
flock2_step(s, dt, with_flight, lite) ==
    flock2_sanitized(s, Flock2Config_sanitize(s.flock2_config), dt,
                     with_flight, lite)



\* the velocity and heading of a reseeded agent
reseed_result(s, v) ==
    [ vel |-> v, heading |-> flat(s, unit_or(v, << UNIT, 0, 0 >>, UNIT)) ]

\* the reseed of an agent of velocity vel and speed `speed`: a still agent
\* takes its heading at min_speed.  The classic model takes
\* sqrt(max(speed_sq, EPSILON)) with fallback min_speed.max(0.01), the flock
\* models sqrt(speed_sq) with fallback min_speed; the direction is that of
\* the vector scaled down.
reseed_at_speed(s, i, min_speed, max_speed, towards_classic, vel, speed) ==
    reseed_result(s,
        flat(s, normalized(s.config.math_mode,
                    prescaled(IF speed <= 1
                              THEN flat(s, scaled3(<< s.heading_x[i],
                                                      s.heading_y[i],
                                                      s.heading_z[i] >>,
                                                   min_speed))
                              ELSE vel),
                    clamp_finite(
                        IF towards_classic THEN Max2(speed, 1) ELSE speed,
                        min_speed, max_speed,
                        IF towards_classic THEN Max2(min_speed, 10)
                        ELSE min_speed),
                    UNIT)))

reseed_with_velocity(s, i, min_speed, max_speed, towards_classic, vel) ==
    reseed_at_speed(s, i, min_speed, max_speed, towards_classic, vel,
                    length3(vel[1], vel[2], vel[3]))

\* to_world towards the classic model and from_world away from it
converted(v, towards_classic) ==
    << IF towards_classic THEN to_world(v[1]) ELSE from_world(v[1]),
       IF towards_classic THEN to_world(v[2]) ELSE from_world(v[2]),
       IF towards_classic THEN to_world(v[3]) ELSE from_world(v[3]) >>

\* the reseed of one agent for the band [min_speed, max_speed]
reseed_agent(s, i, min_speed, max_speed, towards_classic) ==
    reseed_with_velocity(s, i, min_speed, max_speed, towards_classic,
        flat(s, converted(<< s.vel_x[i], s.vel_y[i], s.vel_z[i] >>,
                          towards_classic)))

reseed_written(s, r) ==
    [s EXCEPT
        !.vel_x = [i \in Agents(s) |-> r[i].vel[1]],
        !.vel_y = [i \in Agents(s) |-> r[i].vel[2]],
        !.vel_z = [i \in Agents(s) |-> r[i].vel[3]],
        !.heading_x = [i \in Agents(s) |-> r[i].heading[1]],
        !.heading_y = [i \in Agents(s) |-> r[i].heading[2]],
        !.heading_z = [i \in Agents(s) |-> r[i].heading[3]]]

\* the reseed loop for a speed band; its clamp_finite(speed, min, max,
\* fallback) panics when it is reached with min > max
reseed_within(s, min_speed, max_speed, towards_classic) ==
    IF s.count > 0 /\ f32_clamp_panics(min_speed, max_speed)
    THEN [s EXCEPT !.panicked = TRUE]
    ELSE reseed_written(s,
             stored([i \in Agents(s) |->
                        reseed_agent(s, i, min_speed, max_speed, towards_classic)],
                    s.count))

reseed_for_flock2(s, c) ==
    reseed_within([s EXCEPT !.flock2_config = c,
                            !.neighbor_grid = set_cell_size(s.neighbor_grid,
                                                            c.neighbor_radius)],
                  c.min_speed, c.max_speed, FALSE)

\* a reseed that also pins the depth of every agent to the mid layer
recentred(s) ==
    [s EXCEPT !.pos_z = [i \in Agents(s) |-> DEFAULT_Z_LAYER]]

reseed_recentering(s) ==
    recentred(IF s.model_kind = "Classic"
              THEN reseed_within(s, s.config.min_speed, s.config.max_speed,
                                 TRUE)
              ELSE reseed_for_flock2(s,
                       Flock2Config_sanitize(s.flock2_config)))

\* Sim::reseed_velocity_for_model
reseed_velocity_for_model(s) ==
    IF s.model_kind = "Classic"
    THEN reseed_within(s, s.config.min_speed, s.config.max_speed, TRUE)
    ELSE reseed_for_flock2(s, Flock2Config_sanitize(s.flock2_config))

\* the model selector: a change between the classic model and a
\* flock-heading model reseeds velocity and heading
set_model_kind(s, kind) ==
    IF (kind = "Classic") # (s.model_kind = "Classic")
    THEN reseed_velocity_for_model([Quiet(s) EXCEPT !.model_kind = kind])
    ELSE [Quiet(s) EXCEPT !.model_kind = kind]

\* the flock-heading configuration setter: the fields are stored and
\* sanitized before they take effect
set_flock2_config(s, min_speed, max_speed, topological_neighbors, field_of_view_deg) ==
    [Quiet(s) EXCEPT !.flock2_config = Flock2Config_sanitize(
        [ @ EXCEPT !.min_speed = min_speed, !.max_speed = max_speed,
                   !.topological_neighbors = topological_neighbors,
                   !.field_of_view_deg = field_of_view_deg ])]

\* Sim::step_flock2 and Sim::step_flock2_lite
step_flock2(s, dt, with_flight) == flock2_step(s, dt, with_flight, FALSE)
step_flock2_lite(s, dt, with_flight) == flock2_step(s, dt, with_flight, TRUE)

\* the step of the active model
step_model(s, dt) ==
    IF s.model_kind = "Classic" THEN step_classic(s, dt)
    ELSE IF s.model_kind \in { "Flock2Social", "Flock2SocialFlight" }
    THEN step_flock2(s, dt, s.model_kind = "Flock2SocialFlight")
    ELSE step_flock2_lite(s, dt, s.model_kind = "Flock2LiteSocialFlight")

step_unguarded(s, dt) == step_model(Quiet(s), dt)

\* Sim::step after the clamp: the no-op, or the step of the active model
step_clamped(s, dt) ==
    IF (dt # NaN /\ dt <= 0) \/ s.active_count = 0
    THEN [Quiet(s) EXCEPT !.neighbors_visited_last_step = 0]
    ELSE step_model(Quiet(s), dt)

\* Sim::step: the dt clamp, the no-op, then the step of the active model
step(s, dt) == step_clamped(s, f32_clamp(dt, DT_MIN, DT_MAX))

----------------------------------------------------------------------------
(* The state machine: one Sim driven through its public calls              *)

VARIABLES count, active_count, width, height, config, flock2_config,
          model_kind, bounce_x, bounce_y, bounce_z, z_mode_enabled,
          z_force_scale, pos_x, pos_y, pos_z, vel_x, vel_y, vel_z,
          accel_x, accel_y, accel_z, heading_x, heading_y, heading_z,
          render_xy, render_z, neighbor_grid, neighbors_visited_last_step,
          step_index, panicked, debug_assert_failed, tentative,
          phases, dt_used, corrections, last_call, calls_left

vars == << count, active_count, width, height, config, flock2_config,
           model_kind, bounce_x, bounce_y, bounce_z, z_mode_enabled,
           z_force_scale, pos_x, pos_y, pos_z, vel_x, vel_y, vel_z,
           accel_x, accel_y, accel_z, heading_x, heading_y, heading_z,
           render_xy, render_z, neighbor_grid, neighbors_visited_last_step,
           step_index, panicked, debug_assert_failed, tentative,
           phases, dt_used, corrections, last_call, calls_left >>

\* the Sim the variables hold
Self ==
    [ count |-> count, active_count |-> active_count,
      width |-> width, height |-> height,
      config |-> config, flock2_config |-> flock2_config,
      model_kind |-> model_kind,
      bounce_x |-> bounce_x, bounce_y |-> bounce_y, bounce_z |-> bounce_z,
      z_mode_enabled |-> z_mode_enabled, z_force_scale |-> z_force_scale,
      pos_x |-> pos_x, pos_y |-> pos_y, pos_z |-> pos_z,
      vel_x |-> vel_x, vel_y |-> vel_y, vel_z |-> vel_z,
      accel_x |-> accel_x, accel_y |-> accel_y, accel_z |-> accel_z,
      heading_x |-> heading_x, heading_y |-> heading_y,
      heading_z |-> heading_z,
      render_xy |-> render_xy, render_z |-> render_z,
      neighbor_grid |-> neighbor_grid,
      neighbors_visited_last_step |-> neighbors_visited_last_step,
      step_index |-> step_index,
      panicked |-> panicked, debug_assert_failed |-> debug_assert_failed,
      tentative |-> tentative, phases |-> phases, dt_used |-> dt_used,
      corrections |-> corrections ]

\* the variables take the fields of s
Holds(s) ==
    /\ count = s.count /\ active_count = s.active_count
    /\ width = s.width /\ height = s.height
    /\ config = s.config /\ flock2_config = s.flock2_config
    /\ model_kind = s.model_kind
    /\ bounce_x = s.bounce_x /\ bounce_y = s.bounce_y /\ bounce_z = s.bounce_z
    /\ z_mode_enabled = s.z_mode_enabled /\ z_force_scale = s.z_force_scale
    /\ pos_x = s.pos_x /\ pos_y = s.pos_y /\ pos_z = s.pos_z
    /\ vel_x = s.vel_x /\ vel_y = s.vel_y /\ vel_z = s.vel_z
    /\ accel_x = s.accel_x /\ accel_y = s.accel_y /\ accel_z = s.accel_z
    /\ heading_x = s.heading_x /\ heading_y = s.heading_y
    /\ heading_z = s.heading_z
    /\ render_xy = s.render_xy /\ render_z = s.render_z
    /\ neighbor_grid = s.neighbor_grid
    /\ neighbors_visited_last_step = s.neighbors_visited_last_step
    /\ step_index = s.step_index
    /\ panicked = s.panicked /\ debug_assert_failed = s.debug_assert_failed
    /\ tentative = s.tentative
    /\ phases = s.phases /\ dt_used = s.dt_used
    /\ corrections = s.corrections

\* the call op(args) turns the Sim into s
Becomes(s, op, args) ==
    /\ count' = s.count /\ active_count' = s.active_count
    /\ width' = s.width /\ height' = s.height
    /\ config' = s.config /\ flock2_config' = s.flock2_config
    /\ model_kind' = s.model_kind
    /\ bounce_x' = s.bounce_x /\ bounce_y' = s.bounce_y /\ bounce_z' = s.bounce_z
    /\ z_mode_enabled' = s.z_mode_enabled /\ z_force_scale' = s.z_force_scale
    /\ pos_x' = s.pos_x /\ pos_y' = s.pos_y /\ pos_z' = s.pos_z
    /\ vel_x' = s.vel_x /\ vel_y' = s.vel_y /\ vel_z' = s.vel_z
    /\ accel_x' = s.accel_x /\ accel_y' = s.accel_y /\ accel_z' = s.accel_z
    /\ heading_x' = s.heading_x /\ heading_y' = s.heading_y
    /\ heading_z' = s.heading_z
    /\ render_xy' = s.render_xy /\ render_z' = s.render_z
    /\ neighbor_grid' = s.neighbor_grid
    /\ neighbors_visited_last_step' = s.neighbors_visited_last_step
    /\ step_index' = s.step_index
    /\ panicked' = s.panicked /\ debug_assert_failed' = s.debug_assert_failed
    /\ tentative' = s.tentative
    /\ phases' = s.phases /\ dt_used' = s.dt_used
    /\ corrections' = s.corrections
    /\ last_call' = [op |-> op, args |-> args]
    /\ calls_left' = calls_left - 1

\* a NaN among the agents' values: every later value derived from it is NaN
\* again, so the runs end there
has_nan(s) ==
    \E i \in Agents(s) :
        \/ s.pos_x[i] = NaN \/ s.pos_y[i] = NaN \/ s.pos_z[i] = NaN
        \/ s.vel_x[i] = NaN \/ s.vel_y[i] = NaN \/ s.vel_z[i] = NaN

\* the host can make another call
Ready == ~panicked /\ ~has_nan(Self) /\ calls_left > 0

----------------------------------------------------------------------------
(* The constructed states.  Sim::new draws every position in [0, 1), the    *)
(* planar speed in [min_speed, max_speed] and |vel_z| <= 0.35 * speed from  *)
(* the seeded generator; a layout is one such draw.                         *)

\* one agent next to the x = 0 and y = 1 boundaries
LayoutCorner ==
    [ xs |-> Vec(<< 100 >>), ys |-> Vec(<< 19950 >>), zs |-> Vec(<< 10000 >>),
      vxs |-> Vec(<< 0 - 150 >>), vys |-> Vec(<< 100 >>), vzs |-> Vec(<< 30 >>) ]

\* two agents within each other's neighbour radius, next to the z boundaries
LayoutPair ==
    [ xs |-> Vec(<< 10000, 10300 >>), ys |-> Vec(<< 10000, 10000 >>),
      zs |-> Vec(<< 2, 19998 >>),
      vxs |-> Vec(<< 100, 0 - 60 >>), vys |-> Vec(<< 0, 80 >>),
      vzs |-> Vec(<< 0 - 35, 30 >>) ]

\* three agents in sight of one another
LayoutTriple ==
    [ xs |-> Vec(<< 5000, 5400, 5200 >>), ys |-> Vec(<< 5000, 5000, 5300 >>),
      zs |-> Vec(<< 9000, 10000, 11000 >>),
      vxs |-> Vec(<< 100, 120, 0 >>), vys |-> Vec(<< 0, 0, 0 - 100 >>),
      vzs |-> Vec(<< 10, 0 - 20, 0 >>) ]

Layouts == { LayoutCorner, LayoutPair, LayoutTriple }

\* Sim::new on a layout
Constructed(layout) ==
    Sim_new(VecLen(layout.xs), layout.xs, layout.ys, layout.zs,
            layout.vxs, layout.vys, layout.vzs, WORLD_SIZE, WORLD_SIZE)

\* the state after construction when the host makes at most `budget` calls
Boot(layouts, budget) ==
    /\ \E layout \in layouts : Holds(Constructed(layout))
    /\ last_call = [op |-> "new", args |-> << >>]
    /\ calls_left = budget

----------------------------------------------------------------------------
(* The public calls, one action each *)

SetConfig(a) ==
    /\ Ready
    /\ Becomes(set_config(Self, a[1], a[2], a[3], a[4], a[5], a[6], a[7], a[8]),
               "set_config", a)

SetZMode(enabled) ==
    /\ Ready
    /\ Becomes(set_z_mode(Self, enabled), "set_z_mode", << enabled >>)

SetZForceScale(scale) ==
    /\ Ready
    /\ Becomes(set_z_force_scale(Self, scale), "set_z_force_scale", << scale >>)

SetBounceBounds(enabled) ==
    /\ Ready
    /\ Becomes(set_bounce_bounds(Self, enabled), "set_bounce_bounds",
               << enabled >>)

SetAxisBounce(b) ==
    /\ Ready
    /\ Becomes(set_axis_bounce(Self, b[1], b[2], b[3]), "set_axis_bounce", b)

SetMathMode(mode) ==
    /\ Ready
    /\ Becomes(set_math_mode(Self, mode), "set_math_mode", << mode >>)

SetMaxNeighborsSampled(max_neighbors) ==
    /\ Ready
    /\ Becomes(set_max_neighbors_sampled(Self, max_neighbors),
               "set_max_neighbors_sampled", << max_neighbors >>)

SetMaxForce(max_force) ==
    /\ Ready
    /\ Becomes(set_max_force(Self, max_force), "set_max_force", << max_force >>)

SetMinDistance(distance) ==
    /\ Ready
    /\ Becomes(set_min_distance(Self, distance), "set_min_distance",
               << distance >>)

SetHardMinDistance(distance) ==
    /\ Ready
    /\ Becomes(set_hard_min_distance(Self, distance), "set_hard_min_distance",
               << distance >>)

SetJitterStrength(jitter_strength) ==
    /\ Ready
    /\ Becomes(set_jitter_strength(Self, jitter_strength),
               "set_jitter_strength", << jitter_strength >>)

SetDrag(drag) ==
    /\ Ready
    /\ Becomes(set_drag(Self, drag), "set_drag", << drag >>)

SetBounds(b) ==
    /\ Ready
    /\ Becomes(set_bounds(Self, b[1], b[2]), "set_bounds", b)

SetActiveCount(n) ==
    /\ Ready
    /\ Becomes(set_active_count(Self, n), "set_active_count", << n >>)

SetModelKind(kind) ==
    /\ Ready
    /\ Becomes(set_model_kind(Self, kind), "set_model_kind", << kind >>)

SetFlock2Config(a) ==
    /\ Ready
    /\ Becomes(set_flock2_config(Self, a[1], a[2], a[3], a[4]),
               "set_flock2_config", a)

Step(dt) ==
    /\ Ready
    /\ Becomes(step(Self, dt), "step", << dt >>)

----------------------------------------------------------------------------
(* The inputs of the calls *)

\* set_config: a speed band given as min 1.0 and a non-finite max among
\* non-finite values; no flocking weights; the defaults again
ConfigInputs ==
    { << NaN, PosInf, NegInf, NaN, NaN, 1000, NaN, NaN >>,
      << 0, 0, 0, 2400, 700, 45, 190, 420 >>,
      << 1450, 1000, 850, 1600, 700, 45, 190, 420 >> }

AxisBounceInputs ==
    { << TRUE, FALSE, FALSE >>, << FALSE, TRUE, FALSE >>,
      << FALSE, FALSE, TRUE >> }

Flock2ConfigInputs ==
    { << 20000, NaN, 1, 290 >>, << 5000, 18000, 0, NaN >> }

\* step: nothing, NaN, one 60 Hz frame, more than the 0.1 s it is clamped to
StepInputs == { 0, NaN, 16, 250 }

\* the calls a host can make
Next ==
    \/ \E a \in ConfigInputs : SetConfig(a)
    \/ \E enabled \in BOOLEAN : SetZMode(enabled)
    \/ \E scale \in { NaN, 2500 } : SetZForceScale(scale)
    \/ \E enabled \in BOOLEAN : SetBounceBounds(enabled)
    \/ \E b \in AxisBounceInputs : SetAxisBounce(b)
    \/ \E mode \in { 0, 1 } : SetMathMode(mode)
    \/ \E k \in { 0, 1 } : SetMaxNeighborsSampled(k)
    \/ \E f \in { 0, NaN } : SetMaxForce(f)
    \/ \E d \in { 0, 2400, 30000, NaN } : SetMinDistance(d)
    \/ \E d \in { 4000, PosInf } : SetHardMinDistance(d)
    \/ \E j \in { 0, NegInf } : SetJitterStrength(j)
    \/ \E d \in { 1000 } : SetDrag(d)
    \/ \E b \in { << 0, 40000 >> } : SetBounds(b)
    \/ \E n \in { 0, 1, 5 } : SetActiveCount(n)
    \/ \E kind \in ModelKinds : SetModelKind(kind)
    \/ \E a \in Flock2ConfigInputs : SetFlock2Config(a)
    \/ \E dt \in StepInputs : Step(dt)

\* the calls one run makes
MaxCalls == 2

Init == Boot(Layouts, MaxCalls)

Spec == Init /\ [][Next]_vars

----------------------------------------------------------------------------
(* The boundary policies: runs that choose a policy per axis, switch depth  *)
(* mode on and step agents across the boundaries                            *)

NextBoundary ==
    \/ SetBounceBounds(TRUE)
    \/ \E b \in { << TRUE, FALSE, FALSE >>, << FALSE, FALSE, TRUE >> } :
          SetAxisBounce(b)
    \/ SetZMode(TRUE)
    \/ SetHardMinDistance(4000)
    \/ SetModelKind("Flock2SocialFlight")
    \/ \E dt \in { 16, 100 } : Step(dt)

MaxBoundaryCalls == 4

InitBoundary == Boot({ LayoutCorner, LayoutPair }, MaxBoundaryCalls)

SpecBoundary == InitBoundary /\ [][NextBoundary]_vars

----------------------------------------------------------------------------
(* The hard floor: the runs of tests::min_distance_is_enforced_as_hard_floor *)

\* the hard minimum distance 0.2 and the tolerance 2e-3 of the test
FLOOR_DISTANCE == 4000
FLOOR_TOLERANCE == 40

\* the state the test steps from: two agents at (x, y) with no velocity,
\* depth mode off, every axis wrapping, no steering force, the hard
\* threshold set and the soft one cleared
floor_start(x, y) ==
    set_min_distance(
        set_hard_min_distance(
            set_max_force(
                set_axis_bounce(
                    set_z_mode(
                        Sim_new(2, Vec(<< x, x >>), Vec(<< y, y >>),
                                Vec(<< 3000, 15000 >>), Vec(<< 0, 0 >>),
                                Vec(<< 0, 0 >>), Vec(<< 0, 0 >>),
                                WORLD_SIZE, WORLD_SIZE),
                        FALSE),
                    FALSE, FALSE, FALSE),
                0),
            FLOOR_DISTANCE),
        0)

\* the pair in the middle of the world and on its corner
FloorStarts == { << 10000, 10000 >>, << 0, 0 >> }

\* the steps one run makes
MaxFloorSteps == 110

InitFloor ==
    /\ \E p \in FloorStarts : Holds(floor_start(p[1], p[2]))
    /\ last_call = [op |-> "set_min_distance", args |-> << 0 >>]
    /\ calls_left = MaxFloorSteps

NextFloor == \E dt \in { 16, 100 } : Step(dt)

\* the host makes one more call
HostCalls == Ready /\ calls_left' = calls_left - 1

\* the host keeps stepping while it has calls left
SpecFloor == InitFloor /\ [][NextFloor]_vars /\ WF_calls_left(HostCalls)

----------------------------------------------------------------------------
(* The model switch: runs that give the classic model a speed band, cap the  *)
(* neighbour sampling, switch between the models and step                    *)

NextModels ==
    \/ SetConfig(<< NaN, PosInf, NegInf, NaN, NaN, 1000, NaN, NaN >>)
    \/ SetMaxNeighborsSampled(1)
    \/ \E kind \in ModelKinds : SetModelKind(kind)
    \/ Step(16)

MaxModelCalls == 3

InitModels == Boot({ LayoutPair, LayoutTriple }, MaxModelCalls)

SpecModels == InitModels /\ [][NextModels]_vars

----------------------------------------------------------------------------
(* Depth mode: runs without jitter that switch depth mode off and on again, *)
(* take the steering force away and step                                    *)

NextDepth ==
    \/ \E enabled \in BOOLEAN : SetZMode(enabled)
    \/ SetMaxForce(0)
    \/ SetActiveCount(1)
    \/ \E dt \in { 0, 16 } : Step(dt)

MaxDepthCalls == 4

\* the state after construction and set_jitter_strength(0.0)
InitDepth ==
    /\ \E layout \in { LayoutCorner, LayoutPair } :
          Holds(set_jitter_strength(Constructed(layout), 0))
    /\ last_call = [op |-> "set_jitter_strength", args |-> << 0 >>]
    /\ calls_left = MaxDepthCalls

SpecDepth == InitDepth /\ [][NextDepth]_vars

----------------------------------------------------------------------------
(* The configurations: runs that set the classic and the flock-heading      *)
(* configuration from finite and non-finite values, and set them again from *)
(* the values that are stored                                               *)

\* the arguments of set_config that repeat the stored configuration
config_args(s) ==
    << s.config.sep_weight, s.config.align_weight, s.config.coh_weight,
       s.config.neighbor_radius, s.config.separation_radius,
       s.config.min_speed, s.config.max_speed, s.config.max_force >>

\* the arguments of set_flock2_config that repeat the stored configuration
flock2_config_args(s) ==
    << s.flock2_config.min_speed, s.flock2_config.max_speed,
       s.flock2_config.topological_neighbors,
       s.flock2_config.field_of_view_deg >>

\* neighbor_radius, separation_radius, min_speed and max_speed of set_config
ConfigGrid ==
    { << 1450, 1000, 850, nr, sr, mn, mx, 420 >> :
        nr \in { NaN, 500, 1600 }, sr \in { NaN, 700, PosInf },
        mn \in { NaN, 1000 }, mx \in { NaN, 190 } }

Flock2ConfigGrid ==
    { << mn, mx, 7, 290 >> : mn \in { 5000, 20000 }, mx \in { NaN, 18000 } }

NextConfig ==
    \/ \E a \in ConfigGrid \cup { config_args(Self) } : SetConfig(a)
    \/ \E a \in Flock2ConfigGrid \cup { flock2_config_args(Self) } :
          SetFlock2Config(a)
    \/ \E kind \in { "Classic", "Flock2Social" } : SetModelKind(kind)
    \/ Step(16)

MaxConfigCalls == 2

InitConfig == Boot({ LayoutPair }, MaxConfigCalls)

SpecConfig == InitConfig /\ [][NextConfig]_vars

----------------------------------------------------------------------------
(* The step under every time increment: a host that steps with increments  *)
(* below, inside and above [DT_MIN, DT_MAX] and with the non-finite ones,   *)
(* with some agents inactive, with the hard floor on, in the classic and    *)
(* the flock-heading models.                                                *)

\* -inf, a negative increment, nothing, one 60 Hz frame, DT_MAX, more than
\* DT_MAX, +inf, NaN
StepIncrements == { NegInf, 0 - 16, 0, 16, DT_MAX, 250, PosInf, NaN }

NextStep ==
    \/ \E dt \in StepIncrements : Step(dt)
    \/ \E n \in { 0, 1, 2, 5 } : SetActiveCount(n)
    \/ SetHardMinDistance(4000)
    \/ \E kind \in { "Classic", "Flock2Social", "Flock2LiteSocial" } :
           SetModelKind(kind)

MaxStepCalls == 3

InitStep == Boot({ LayoutPair, LayoutTriple }, MaxStepCalls)

SpecStep == InitStep /\ [][NextStep]_vars

----------------------------------------------------------------------------
(* The neighbour query: a host that sets the sampling cap, makes axes       *)
(* reflect (a reflecting axis is queried with the raw delta, a wrapping one *)
(* with the wrapped delta), deactivates agents and steps.                   *)

\* four agents in sight of one another across the x seam, the third further
\* from the others than the separation radius
LayoutQuad ==
    [ xs |-> Vec(<< 19800, 200, 19900, 100 >>),
      ys |-> Vec(<< 10000, 10100, 10900, 9900 >>),
      zs |-> Vec(<< 10000, 10000, 10000, 10000 >>),
      vxs |-> Vec(<< 100, 0 - 60, 0, 50 >>), vys |-> Vec(<< 0, 80, 0 - 100, 50 >>),
      vzs |-> Vec(<< 0, 0, 0, 0 >>) ]

NextQuery ==
    \/ \E k \in { 1, 2 } : SetMaxNeighborsSampled(k)
    \/ \E b \in AxisBounceInputs : SetAxisBounce(b)
    \/ \E n \in { 2, 3 } : SetActiveCount(n)
    \/ Step(16)

MaxQueryCalls == 3

InitQuery == Boot({ LayoutTriple, LayoutQuad }, MaxQueryCalls)

SpecQuery == InitQuery /\ [][NextQuery]_vars

----------------------------------------------------------------------------
(* The neighbour grid driven on its own, as the tests of neighbor_grid.rs   *)
(* drive it: a grid over the unit world is given a cell size and rebuilt    *)
(* over position slices, and is then queried.  The Sim around it stays as   *)
(* constructed.                                                             *)

\* the position slices of a rebuild: none; the layouts of the two tests,
\* scaled from their 10 x 10 world; two agents on either side of the x seam;
\* two agents at one place with a third across both seams
GridSlices ==
    { << EmptyVec, EmptyVec >>,
      << Vec(<< 2000, 3000, 16000, 5400 >>), Vec(<< 2000, 2400, 16000, 2200 >>) >>,
      << Vec(<< 3800, 4200, 10000 >>), Vec(<< 2000, 2000, 10000 >>) >>,
      << Vec(<< 100, 19000 >>), Vec(<< 10000, 10000 >>) >>,
      << Vec(<< 300, 300, 19900 >>), Vec(<< 200, 200, 19800 >>) >> }

\* the cell sizes: the default neighbour radius (12.5 cells across the
\* world), the 2.0 of the tests (5 cells), half the world, the world
GridCellSizes == { 1600, 4000, 10000, WORLD_SIZE }

\* NeighborGrid::rebuild on the grid of the Sim
GridRebuild(slice) ==
    /\ calls_left > 0
    /\ Becomes([Self EXCEPT !.neighbor_grid =
                    rebuild(neighbor_grid, slice[1], slice[2],
                            WORLD_SIZE, WORLD_SIZE)],
               "rebuild", slice)

\* NeighborGrid::set_cell_size on the grid of the Sim
GridSetCellSize(cell_size) ==
    /\ calls_left > 0
    /\ Becomes([Self EXCEPT !.neighbor_grid =
                    set_cell_size(neighbor_grid, cell_size)],
               "set_cell_size", << cell_size >>)

NextGrid ==
    \/ \E slice \in GridSlices : GridRebuild(slice)
    \/ \E cell_size \in GridCellSizes : GridSetCellSize(cell_size)

MaxGridCalls == 3

InitGrid == Boot({ LayoutPair }, MaxGridCalls)

SpecGrid == InitGrid /\ [][NextGrid]_vars

----------------------------------------------------------------------------
(* The speed band of the classic model: a host that moves the band above    *)
(* and below the speeds of the agents, with steering on and off, adds drag, *)
(* turns the depth and the fast math on and steps.                          *)

\* set_config with the band [0.15, 0.19] above the agents' speeds and the
\* band [0.045, 0.08] below them, with the default max_force and without
SpeedConfigs ==
    { << 1450, 1000, 850, 1600, 700, mn, mx, f >> :
        mn \in { 150 }, mx \in { 190 }, f \in { 0, 420 } }
    \cup { << 1450, 1000, 850, 1600, 700, 45, 80, 420 >> }

NextSpeed ==
    \/ \E a \in SpeedConfigs : SetConfig(a)
    \/ SetMaxForce(0)
    \/ SetDrag(1000)
    \/ SetZMode(TRUE)
    \/ SetMathMode(1)
    \/ \E dt \in { 16, DT_MAX } : Step(dt)

MaxSpeedCalls == 3

InitSpeed == Boot({ LayoutPair, LayoutTriple }, MaxSpeedCalls)

SpecSpeed == InitSpeed /\ [][NextSpeed]_vars

----------------------------------------------------------------------------
(* The neighbour pass of the flock-heading models: a host that sets the     *)
(* topological cap and the field of view, selects a flock-heading model,    *)
(* turns the depth on and steps.                                            *)

\* set_flock2_config with the topological caps 1, 2 and 7 and the fields of
\* view of 290 and 180 degrees
TopologicalConfigs ==
    { << 5000, 18000, cap, fov >> : cap \in { 1, 2, 7 }, fov \in { 290, 180 } }

NextFlock ==
    \/ \E a \in TopologicalConfigs : SetFlock2Config(a)
    \/ \E kind \in { "Flock2Social", "Flock2LiteSocial" } : SetModelKind(kind)
    \/ SetZMode(TRUE)
    \/ Step(16)

MaxFlockCalls == 3

InitFlock == Boot({ LayoutTriple, LayoutQuad }, MaxFlockCalls)

SpecFlock == InitFlock /\ [][NextFlock]_vars

----------------------------------------------------------------------------
(* The centroid-seeking term of the flock-heading models: a crowd of        *)
(* twenty-one agents, the first one behind the twenty others and heading    *)
(* towards them, all within the default neighbour radius of it.             *)

CROWD == 21

\* agent 0 at (0.25, 0.25), the others on a 5 x 4 lattice in front of it
LayoutCrowd ==
    [ xs |-> Vec([k \in 1 .. CROWD |->
                    IF k = 1 THEN 5000 ELSE 5300 + 300 * ((k - 2) % 5)]),
      ys |-> Vec([k \in 1 .. CROWD |->
                    IF k = 1 THEN 5000 ELSE 4550 + 300 * ((k - 2) \div 5)]),
      zs |-> Vec([k \in 1 .. CROWD |-> DEFAULT_Z_LAYER]),
      vxs |-> Vec([k \in 1 .. CROWD |-> 100]),
      vys |-> Vec([k \in 1 .. CROWD |-> 0]),
      vzs |-> Vec([k \in 1 .. CROWD |-> 0]) ]

NextCentroid ==
    \/ \E kind \in { "Flock2Social", "Flock2LiteSocial" } : SetModelKind(kind)
    \/ \E cap \in { 1, 7, 64 } : SetFlock2Config(<< 5000, 18000, cap, 290 >>)
    \/ \E n \in { 2, 20 } : SetActiveCount(n)
    \/ SetZMode(TRUE)
    \/ Step(16)

MaxCentroidCalls == 3

InitCentroid == Boot({ LayoutTriple, LayoutCrowd }, MaxCentroidCalls)

SpecCentroid == InitCentroid /\ [][NextCentroid]_vars

----------------------------------------------------------------------------
(* The hard minimum distance resolver: a host that sets the hard minimum    *)
(* distance, the boundary policy and the depth, and steps.  Four of the     *)
(* agents of the huddle are less than a thousandth of the world apart.      *)

LayoutHuddle ==
    [ xs |-> Vec(<< 5000, 5016, 5000, 5016, 5300 >>),
      ys |-> Vec(<< 5000, 5000, 5016, 5016, 5000 >>),
      zs |-> Vec(<< 10000, 10000, 10000, 10000, 10400 >>),
      vxs |-> Vec(<< 100, 100, 100, 100, 0 - 80 >>),
      vys |-> Vec(<< 0, 0, 0, 0, 60 >>),
      vzs |-> Vec(<< 0, 0, 0, 0, 0 >>) ]

\* hard minimum distances of 0.02, 0.2 and 0.5
HardDistances == { 400, 4000, 10000 }

NextResolver ==
    \/ \E distance \in HardDistances : SetHardMinDistance(distance)
    \/ \E b \in AxisBounceInputs : SetAxisBounce(b)
    \/ SetZMode(TRUE)
    \/ Step(16)

MaxResolverCalls == 3

InitResolver == Boot({ LayoutTriple, LayoutQuad, LayoutHuddle }, MaxResolverCalls)

SpecResolver == InitResolver /\ [][NextResolver]_vars

----------------------------------------------------------------------------
(* The force pass: a host that selects a model, turns the depth on and      *)
(* steps three and four agents that see one another.                        *)

NextPass ==
    \/ \E kind \in { "Flock2Social", "Flock2LiteSocial" } : SetModelKind(kind)
    \/ SetZMode(TRUE)
    \/ \E dt \in { 16, DT_MAX } : Step(dt)

MaxPassCalls == 3

InitPass == Boot({ LayoutTriple, LayoutQuad }, MaxPassCalls)

SpecPass == InitPass /\ [][NextPass]_vars

----------------------------------------------------------------------------
(* The claims *)

\* C1: after construction and after any setter and step calls (any dt, any
\* boundary policy, any model) every agent's x, y and z position lies in
\* [0, world_size], as the range assertions of debug_validate_state demand.
C1_PositionsInWorld ==
    /\ \A i \in Agents(Self) :
          in_world(pos_x[i]) /\ in_world(pos_y[i]) /\ in_world(pos_z[i])
    /\ ~debug_assert_failed

\* C2: while depth mode is disabled (from construction on, or after
\* set_z_mode(false)) every allocated agent has z-position 0.5 and
\* z-velocity 0, whatever steps ran, for any model and any active_count.
C2_FlatWhileDepthDisabled ==
    ~z_mode_enabled =>
        \A i \in Agents(Self) : pos_z[i] = DEFAULT_Z_LAYER /\ vel_z[i] = 0

\* the value clamp_finite keeps of an input d of a minimum-distance setter
kept_min_distance(d, fallback) ==
    IF ~is_finite(d) THEN fallback
    ELSE IF d < MIN_MIN_DISTANCE THEN MIN_MIN_DISTANCE
    ELSE IF d > MAX_MIN_DISTANCE THEN MAX_MIN_DISTANCE
    ELSE d

\* C8: the soft and the hard minimum distance are independent.
\* set_min_distance changes only the soft threshold, set_hard_min_distance
\* only the hard one, every other call (set_config among them) preserves
\* both, and each getter returns the last value set for it, clamped.
C8_MinDistancesIndependent ==
    [][ /\ last_call'.op = "set_min_distance" =>
              min_distance(Self)' =
                  kept_min_distance(last_call'.args[1], DEFAULT_SOFT_MIN_DISTANCE)
        /\ last_call'.op # "set_min_distance" =>
              min_distance(Self)' = min_distance(Self)
        /\ last_call'.op = "set_hard_min_distance" =>
              hard_min_distance(Self)' =
                  kept_min_distance(last_call'.args[1], DEFAULT_HARD_MIN_DISTANCE)
        /\ last_call'.op # "set_hard_min_distance" =>
              hard_min_distance(Self)' = hard_min_distance(Self) ]_vars

\* C8 happens: the hard threshold was set after the soft one, to another value
C8_Witness ==
    /\ last_call.op = "set_hard_min_distance"
    /\ hard_min_distance(Self) = 4000
    /\ min_distance(Self) = 2400

\* the policy, position and velocity of one axis (1 = x, 2 = y, 3 = z)
bounce_of(axis) == IF axis = 1 THEN bounce_x ELSE IF axis = 2 THEN bounce_y
                   ELSE bounce_z
pos_of(axis) == IF axis = 1 THEN pos_x ELSE IF axis = 2 THEN pos_y ELSE pos_z
vel_of(axis) == IF axis = 1 THEN vel_x ELSE IF axis = 2 THEN vel_y ELSE vel_z

\* the integration of agent i on an axis in the step that just returned;
\* its start is not finite when no such integration ran
integrated(i, axis) == tentative[i][axis]

\* C4: on a reflecting axis an active agent whose tentatively advanced
\* position falls below 0 ends the step in [0, world_size] with a strictly
\* positive velocity on that axis, and one whose tentative position exceeds
\* world_size ends it in range with a strictly negative velocity; x, y and
\* (depth mode on) z independently.
C4_ReflectTurnsAgentBack ==
    \A i \in Active(Self) : \A axis \in 1 .. 3 :
        LET start == integrated(i, axis).start
        IN  (bounce_of(axis) /\ is_finite(start)) =>
               /\ start < 0 =>
                     in_world(pos_of(axis)[i]) /\ vel_of(axis)[i] > 0
               /\ start > WORLD_SIZE =>
                     in_world(pos_of(axis)[i]) /\ vel_of(axis)[i] < 0

\* C4 happens: in one step the z axis reflected an agent at 0 and another
\* at world_size while x and y wrapped
C4_Witness ==
    /\ last_call.op = "step" /\ z_mode_enabled
    /\ bounce_z /\ ~bounce_x /\ ~bounce_y
    /\ \E i, j \in Active(Self) :
          /\ is_finite(integrated(i, 3).start) /\ integrated(i, 3).start < 0
          /\ vel_z[i] > 0
          /\ is_finite(integrated(j, 3).start)
          /\ integrated(j, 3).start > WORLD_SIZE
          /\ vel_z[j] < 0

\* C4 happens on x and y: one step reflected an agent at x = 0 and at
\* y = world_size
C4_WitnessPlanar ==
    /\ last_call.op = "step" /\ bounce_x /\ bounce_y
    /\ \E i \in Active(Self) :
          /\ is_finite(integrated(i, 1).start) /\ integrated(i, 1).start < 0
          /\ is_finite(integrated(i, 2).start)
          /\ integrated(i, 2).start > WORLD_SIZE

\* C5: on a wrapping axis the integration returns the advanced position
\* reduced modulo world_size and the velocity it was given, with the same
\* sign and magnitude, whatever the policy of the other axes.
C5_WrapKeepsVelocity ==
    \A i \in Active(Self) : \A axis \in 1 .. 3 :
        LET run == integrated(i, axis)
        IN  (~bounce_of(axis) /\ is_finite(run.start)) =>
               /\ run.position >= 0 /\ run.position < WORLD_SIZE
               /\ (run.start - run.position) % WORLD_SIZE = 0
               /\ run.out_velocity = run.velocity

\* C5 happens: an agent crossed x = 0 on the wrapping x axis while z reflects
C5_Witness ==
    /\ last_call.op = "step" /\ ~bounce_x /\ bounce_z /\ z_mode_enabled
    /\ \E i \in Active(Self) :
          /\ is_finite(integrated(i, 1).start) /\ integrated(i, 1).start < 0
          /\ integrated(i, 1).position > HALF_WORLD
          /\ integrated(i, 1).out_velocity < 0
          /\ pos_x[i] = integrated(i, 1).position


\* the squared wrapped separation of agents i and j in the plane, as the
\* test measures it
pair_separation_sq(s, i, j) ==
    distance_sq_3d(shortest_wrapped_delta(s.pos_x[j] - s.pos_x[i]),
                   shortest_wrapped_delta(s.pos_y[j] - s.pos_y[i]), 0)

\* agents i and j are at least hard_min_distance - 2e-3 apart
floor_holds(s, i, j) ==
    pair_separation_sq(s, i, j) >=
        (hard_min_distance(s) - FLOOR_TOLERANCE)
            * (hard_min_distance(s) - FLOOR_TOLERANCE)

\* every pair of active agents is that far apart
AtFloor ==
    \A i \in Active(Self) : \A j \in Active(Self) :
        i < j => floor_holds(Self, i, j)

\* C3: from two coincident agents with zero velocity, hard minimum distance
\* 0.2, soft minimum distance 0 and no steering force, repeated steps with
\* dt > 0 eventually bring the wrapped separation of the pair to at least
\* the hard minimum distance minus 2e-3, and once there it never drops
\* below that value again.
C3_FloorEventuallyReached ==
    /\ <>[]AtFloor
    /\ [][AtFloor => AtFloor']_vars

\* C3 happens: the resolver brought the coincident pair up to the floor,
\* short of the full hard minimum distance
C3_Witness ==
    /\ last_call.op = "step" /\ step_index > 20
    /\ vel_x[0] = 0 /\ vel_x[1] = 0 /\ vel_y[0] = 0 /\ vel_y[1] = 0
    /\ AtFloor
    /\ pair_separation_sq(Self, 0, 1) <
           hard_min_distance(Self) * hard_min_distance(Self)



\* the bound k * active_count on the counter a step reports
within_sampling_cap ==
    (last_call.op = "step" /\ ~panicked /\ config.max_neighbors_sampled > 0)
        => neighbors_visited_last_step
               <= config.max_neighbors_sampled * active_count

\* C6 as stated: with a sampling cap k > 0 the neighbour-visit counter
\* reported after any step is at most k * active_count, whichever model
\* performed the step.
C6_VisitsWithinCapAnyModel == within_sampling_cap

\* C6: with a sampling cap k > 0 the neighbour-visit counter reported after
\* a step of the classic model is at most k * active_count.
C6_VisitsWithinCapClassic == model_kind = "Classic" => within_sampling_cap

\* a classic step of three agents in sight of one another, each stopped by
\* the cap after its first neighbour
C6_Witness ==
    /\ last_call.op = "step"
    /\ model_kind = "Classic"
    /\ config.max_neighbors_sampled = 1
    /\ active_count = 3
    /\ neighbors_visited_last_step = 3

\* C7: a switch of the model kind leaves every agent's x, y and z position
\* unchanged; the reseed rewrites the velocity and heading arrays only.
C7_SwitchKeepsPositions ==
    [][model_kind' # model_kind =>
          /\ pos_x' = pos_x /\ pos_y' = pos_y /\ pos_z' = pos_z
          /\ accel_x' = accel_x /\ accel_y' = accel_y /\ accel_z' = accel_z
          /\ count' = count /\ active_count' = active_count]_vars

\* the first call switched to a flock-heading model and rescaled velocities
C7_Witness ==
    /\ last_call = [op |-> "set_model_kind", args |-> << "Flock2Social" >>]
    /\ calls_left = MaxModelCalls - 1
    /\ model_kind = "Flock2Social"
    /\ pos_x = Constructed(LayoutPair).pos_x
    /\ pos_z = Constructed(LayoutPair).pos_z
    /\ vel_x # Constructed(LayoutPair).vel_x

\* C10: no sequence of public calls reaches a panic: every clamp of
\* sanitize, of the reseed and of the steps is called with min <= max.
C10_NoPanic == ~panicked

\* C9: whenever depth mode is enabled and an agent is active, a step with
\* dt > 0 leaves at least one agent's z-position different from the
\* mid-layer constant, also after depth mode was disabled and enabled again
\* and for any weights and jitter.
C9_DepthLeavesMidLayer ==
    ( /\ last_call.op = "step"
      /\ is_finite(last_call.args[1]) /\ last_call.args[1] > 0
      /\ z_mode_enabled
      /\ active_count > 0 )
        => \E i \in Agents(Self) : pos_z[i] # DEFAULT_Z_LAYER

\* C11: after set_config with any inputs, finite or not, the stored classic
\* configuration has separation_radius <= neighbor_radius.
C11_SeparationWithinNeighborRadius ==
    (last_call.op = "set_config" /\ ~panicked)
        => config.separation_radius <= config.neighbor_radius

\* C12: after sanitize of the classic or of the flock-heading configuration
\* with any inputs, finite or not, min_speed <= max_speed.
C12_SpeedBandOrdered ==
    /\ (last_call.op = "set_config" /\ ~panicked)
          => config.min_speed <= config.max_speed
    /\ (last_call.op = "set_flock2_config" /\ ~panicked)
          => flock2_config.min_speed <= flock2_config.max_speed

\* C13: sanitize is idempotent: a configuration that was sanitized is left
\* as it is by another sanitize, the classic one (set_config with the stored
\* values) and the flock-heading one (set_flock2_config with the stored
\* values, and the sanitize at the start of a flock-heading step).
C13_SanitizeIdempotent ==
    [][/\ (/\ last_call'.op = "set_config"
           /\ last_call'.args = config_args(Self)
           /\ ~panicked') => config' = config
       /\ (/\ last_call'.op = "set_flock2_config"
           /\ last_call'.args = flock2_config_args(Self))
             => flock2_config' = flock2_config
       /\ (last_call'.op = "step" /\ ~panicked')
             => flock2_config' = flock2_config]_vars

\* the increment dt, as passed to step, is at most zero: NaN compares false
at_most_zero(dt) == dt # NaN /\ dt <= 0

\* C14: a step called with dt <= 0 or with no active agent changes no
\* position, velocity or heading, no entry of the render buffers and not
\* the step index.
C14_NoOpStepChangesNothing ==
    [][(/\ last_call'.op = "step"
        /\ at_most_zero(last_call'.args[1]) \/ active_count = 0)
       => /\ pos_x' = pos_x /\ pos_y' = pos_y /\ pos_z' = pos_z
          /\ vel_x' = vel_x /\ vel_y' = vel_y /\ vel_z' = vel_z
          /\ heading_x' = heading_x /\ heading_y' = heading_y
          /\ heading_z' = heading_z
          /\ render_xy' = render_xy /\ render_z' = render_z
          /\ step_index' = step_index]_vars

\* a step with dt = -inf on a simulation that has moved before, and a step
\* with a positive dt on one without active agents
C14_Witness ==
    /\ last_call.op = "step"
    /\ \/ last_call.args[1] = NegInf /\ step_index > 0
       \/ last_call.args[1] = 16 /\ active_count = 0

\* the last call ran the named phase
has_phase(name) == \E k \in 1 .. Len(phases) : phases[k] = name

\* the last call was a step that ran its integration loop
has_integrated == last_call.op = "step" /\ has_phase("integrate")

\* C15: for every dt passed to step, above DT_MAX, negative, infinite or
\* NaN, the time increment the integration is given lies in
\* [DT_MIN, DT_MAX], and a step with dt > DT_MAX leaves the state that a
\* step with dt = DT_MAX leaves.
C15_IncrementClamped ==
    /\ [](has_integrated => dt_used \in DT_MIN .. DT_MAX)
    /\ [][(/\ last_call'.op = "step"
           /\ last_call'.args[1] # NaN /\ last_call'.args[1] > DT_MAX)
          => Becomes(step(Self, DT_MAX), "step", last_call'.args)]_vars

\* the agent indices a grid holds
grid_members(g) ==
    { g.head[c] : c \in DOMAIN g.head } \cup { g.next[k] : k \in DOMAIN g.next }

\* agent i is as the step found it
left_alone(i) ==
    /\ pos_x'[i] = pos_x[i] /\ pos_y'[i] = pos_y[i] /\ pos_z'[i] = pos_z[i]
    /\ vel_x'[i] = vel_x[i] /\ vel_y'[i] = vel_y[i] /\ vel_z'[i] = vel_z[i]
    /\ render_xy'[2 * i] = render_xy[2 * i]
    /\ render_xy'[2 * i + 1] = render_xy[2 * i + 1]
    /\ render_z'[i] = render_z[i]

\* C16: active_count never exceeds count, and a step excludes the agents at
\* indices >= active_count: it leaves their positions, velocities and
\* render entries unchanged (the resolver included), and the grid it
\* builds, from which the neighbours of the active agents are reported,
\* holds none of them.
C16_InactiveAgentsExcluded ==
    /\ [](active_count <= count)
    /\ []((last_call.op = "step" /\ phases # << >>)
          => grid_members(neighbor_grid) \subseteq
                 (0 .. active_count - 1) \cup { INVALID_INDEX })
    /\ [][last_call'.op = "step"
          => \A i \in active_count .. count - 1 : left_alone(i)]_vars

\* a step of two active agents and an inactive one in which the resolver ran
C16_Witness ==
    /\ last_call.op = "step" /\ has_phase("resolve")
    /\ active_count = 2 /\ count = 3

\* the last call was a step that was not the no-op and returned
has_stepped ==
    /\ last_call.op = "step" /\ ~panicked
    /\ ~at_most_zero(last_call.args[1]) /\ active_count > 0

\* C17: in every step of the classic and of the flock-heading models that
\* is not the no-op, with hard_min_distance > 0 and at least two active
\* agents, the resolver runs exactly once, after the integration loop and
\* before the render buffers are mirrored.
C17_ResolverBetweenIntegrationAndMirror ==
    (has_stepped /\ config.hard_min_distance > 0 /\ active_count >= 2)
        => phases = << "integrate", "resolve", "mirror" >>

\* the render buffers hold the position of agent i
mirrored(i) ==
    /\ render_xy[2 * i] = pos_x[i] /\ render_xy[2 * i + 1] = pos_y[i]
    /\ render_z[i] = pos_z[i]

\* the resolver left agent i elsewhere than the integration had put it
resolver_moved(i) ==
    pos_x[i] # tentative[i][1].position \/ pos_y[i] # tentative[i][2].position

\* C18: when a step that is not the no-op returns, the render buffers hold
\* the position of every active agent, the resolver's changes of that step
\* included: render_xy[2i] = pos_x[i], render_xy[2i+1] = pos_y[i] and
\* render_z[i] = pos_z[i] for every i < active_count.
C18_RenderMirrorsActiveAgents ==
    has_stepped => \A i \in 0 .. active_count - 1 : mirrored(i)

\* a step whose resolver moved an agent
C18_Witness ==
    /\ has_stepped /\ has_phase("resolve")
    /\ \E i \in 0 .. active_count - 1 : resolver_moved(i)

\* the callback of compute_boids_acceleration returns stop: the sampling cap
\* is reached
boids_stops(s, acc) ==
    /\ s.config.max_neighbors_sampled > 0
    /\ acc.neighbor_samples >= s.config.max_neighbors_sampled

\* the number of invocations of the callback, among found[k ..], that
\* follow one at which it returned stop
RECURSIVE calls_after_stop(_, _, _, _, _)
calls_after_stop(s, i, acc, found, k) ==
    IF k > Len(found) THEN 0
    ELSE IF boids_stops(s, acc) THEN Len(found) - k
    ELSE calls_after_stop(s, i, boids_visit(s, i, acc, found[k]), found, k + 1)

\* the query compute_boids_acceleration makes for agent i in the Sim s whose
\* grid step_classic has rebuilt
boids_query(s, i) ==
    for_each_neighbor_with_wrap(s.neighbor_grid, i, s.config.neighbor_radius,
                                ~s.bounce_x, ~s.bounce_y)

\* the classic step about to run queries the neighbours
classic_queries(s, dt) ==
    /\ ~at_most_zero(dt) /\ s.active_count > 0
    /\ s.model_kind = "Classic" /\ ~steering_disabled(s.config)

\* C19: the neighbour query honours the stop signal: once the callback has
\* returned stop for a candidate the query invokes it for no further
\* candidate, in the bucket being walked or in a later cell.
C19_QueryStopsOnSignal ==
    [][(last_call'.op = "step" /\ classic_queries(Self, last_call'.args[1]))
       => \A i \in Active(Self) :
              calls_after_stop(Self, i, boids_start,
                  boids_query(regridded(counted_step(Self),
                                        config.neighbor_radius), i), 1) = 0]_vars

\* the shortest signed distance between two coordinates delta apart on a
\* torus of the given extent, squared
shortest_sq(delta, world_extent) ==
    Min2(delta * delta,
         Min2((delta - world_extent) * (delta - world_extent),
              (delta + world_extent) * (delta + world_extent)))

\* the squared planar distance from agent i to agent j in the grid g, with
\* the shortest delta on an axis that wraps and the raw delta otherwise
query_distance_sq(g, i, j, wrap_x, wrap_y) ==
    (IF wrap_x THEN shortest_sq(g.cached_x[j] - g.cached_x[i], g.width)
     ELSE (g.cached_x[j] - g.cached_x[i]) * (g.cached_x[j] - g.cached_x[i]))
    + (IF wrap_y THEN shortest_sq(g.cached_y[j] - g.cached_y[i], g.height)
       ELSE (g.cached_y[j] - g.cached_y[i]) * (g.cached_y[j] - g.cached_y[i]))

\* the radii queried: the separation radius, the neighbour radius
QueryRadii == { config.separation_radius, config.neighbor_radius }

\* the queries of the grid the last step has rebuilt: agent, radius, wraps
Queries ==
    { << i, radius, wrap_x, wrap_y >> :
        i \in 0 .. neighbor_grid.particle_count - 1, radius \in QueryRadii,
        wrap_x \in BOOLEAN, wrap_y \in BOOLEAN }

\* the candidates the query q hands to the callback
reported(q) == for_each_neighbor_with_wrap(neighbor_grid, q[1], q[2], q[3], q[4])

\* C20: a query for agent i after a rebuild never invokes the callback with
\* j = i, and invokes it with j only if the squared planar distance between
\* i and j, by the shortest wrapped delta on each wrapping axis and the raw
\* delta otherwise, is at most the squared radius.
C20_QueryReportsOnlyInRadius ==
    (last_call.op = "step" /\ phases # << >>)
        => \A q \in Queries :
             \A k \in 1 .. Len(reported(q)) :
                /\ reported(q)[k] # q[1]
                /\ query_distance_sq(neighbor_grid, q[1], reported(q)[k],
                                     q[3], q[4]) <= q[2] * q[2]

\* a rebuilt grid in which a query reports an agent across the seam and
\* leaves out an agent of a scanned cell that is beyond the radius
C20_Witness ==
    /\ last_call.op = "step" /\ phases # << >>
    /\ \E q \in Queries :
          /\ Len(reported(q)) > 0
          /\ Len(reported(q)) < neighbor_grid.particle_count - 1
          /\ \E k \in 1 .. Len(reported(q)) :
                Abs(neighbor_grid.cached_x[reported(q)[k]]
                    - neighbor_grid.cached_x[q[1]]) > WORLD_SIZE \div 2

\* the radii of the queries made of a grid driven on its own
GridRadii == { 500, 1600, 4000, 10000 }

\* the queries of the rebuilt grid: agent, radius, wraps
GridQueries ==
    { << i, radius, wrap_x, wrap_y >> :
        i \in 0 .. neighbor_grid.particle_count - 1, radius \in GridRadii,
        wrap_x \in BOOLEAN, wrap_y \in BOOLEAN }

\* the agents the query q hands to the callback
reported_set(q) == { reported(q)[k] : k \in 1 .. Len(reported(q)) }

\* the agents other than q[1] within the radius of q
in_range(q) ==
    { j \in (0 .. neighbor_grid.particle_count - 1) \ { q[1] } :
        query_distance_sq(neighbor_grid, q[1], j, q[3], q[4]) <= q[2] * q[2] }

\* C21: after a rebuild, for every agent i, radius and wrap setting, the
\* indices handed to the callback are exactly the agents j # i whose
\* distance to i, wrapped where enabled, is at most the radius: none in
\* range is missed, whatever the ratio of world extent to cell size, also
\* across a wrapping boundary.
C21_QueryReportsAllInRadius ==
    last_call.op = "rebuild"
        => \A q \in GridQueries : reported_set(q) = in_range(q)

\* the agent indices probed past the end of the index
MaxProbe == 4

\* the queries for an agent the grid does not hold
OutOfRangeQueries ==
    { << i, radius, wrap_x, wrap_y >> :
        i \in neighbor_grid.particle_count .. MaxProbe, radius \in GridRadii,
        wrap_x \in BOOLEAN, wrap_y \in BOOLEAN }

\* C22: a query with an index i at or past the number of indexed agents, or
\* of an index holding no agent, invokes the callback not once and raises
\* no error; the query only reads the index.
C22_OutOfRangeQueryIsNoOp ==
    \A q \in OutOfRangeQueries : reported(q) = << >>

\* a rebuilt index of three agents, two of them next to the origin, and a
\* rebuilt index holding none
C22_Witness ==
    /\ last_call.op = "rebuild"
    /\ \/ neighbor_grid.particle_count = 0
       \/ /\ neighbor_grid.particle_count = 3
          /\ neighbor_grid.cached_x[0] = 300

\* no element occurs twice in the sequence
is_duplicate_free(seq) ==
    \A a, b \in 1 .. Len(seq) : seq[a] = seq[b] => a = b

\* C28: one neighbour query invokes the callback at most once for each
\* neighbour index, for every radius, cell size and wrap setting, also when
\* wrapping is on and the 2 * cell_radius + 1 cells scanned on an axis are
\* more than the grid's columns or rows.
C28_QueryReportsEachNeighborOnce ==
    last_call.op = "rebuild"
        => \A q \in GridQueries : is_duplicate_free(reported(q))

\* the bucket list of a grid from entry k on, followed for at most n links
\* and up to an entry that is no index of the next array
RECURSIVE bucket_from(_, _, _)
bucket_from(g, k, n) ==
    IF k = INVALID_INDEX \/ n = 0 THEN << >>
    ELSE IF k \notin DOMAIN g.next THEN << k >>
    ELSE << k >> \o bucket_from(g, g.next[k], n - 1)

\* the bucket list of the cell: longer than particle_count only if cyclic
bucket(g, cell) == bucket_from(g, g.head[cell], g.particle_count + 1)

\* the cell of the grid that holds the position of agent i
home_cell(g, i) == cell_index_for_position(g, g.cached_x[i], g.cached_y[i])

\* the agent k is in the bucket list of the cell
in_bucket(g, cell, k) ==
    \E a \in 1 .. Len(bucket(g, cell)) : bucket(g, cell)[a] = k

\* C30: after every rebuild the head and next arrays are well-formed bucket
\* lists: every list is acyclic and ends at the invalid index, each agent
\* 0 .. n-1 is in exactly one list, that of the cell holding its position,
\* and the lists hold nothing else: no entry of an earlier rebuild or of an
\* earlier cell size is reachable.
C30_BucketListsWellFormed ==
    last_call.op = "rebuild"
        => /\ VecLen(neighbor_grid.head) = neighbor_grid.cols * neighbor_grid.rows
           /\ neighbor_grid.particle_count = VecLen(last_call.args[1])
           /\ \A cell \in DOMAIN neighbor_grid.head :
                /\ Len(bucket(neighbor_grid, cell)) <= neighbor_grid.particle_count
                /\ is_duplicate_free(bucket(neighbor_grid, cell))
                /\ \A a \in 1 .. Len(bucket(neighbor_grid, cell)) :
                      /\ bucket(neighbor_grid, cell)[a]
                            \in 0 .. neighbor_grid.particle_count - 1
                      /\ home_cell(neighbor_grid,
                                   bucket(neighbor_grid, cell)[a]) = cell
           /\ \A i \in 0 .. neighbor_grid.particle_count - 1 :
                /\ neighbor_grid.cached_x[i] = last_call.args[1][i]
                /\ neighbor_grid.cached_y[i] = last_call.args[2][i]
                /\ in_bucket(neighbor_grid, home_cell(neighbor_grid, i), i)

\* a rebuild after two earlier calls, at half the world per cell, over three
\* agents of which two share a bucket
C30_Witness ==
    /\ last_call.op = "rebuild" /\ calls_left = 0
    /\ neighbor_grid.particle_count = 3 /\ neighbor_grid.cell_size = 10000
    /\ \E cell \in DOMAIN neighbor_grid.head :
          Len(bucket(neighbor_grid, cell)) = 2

\* the squared speed of agent i: vel_z is zero while depth mode is off
speed_sq_of(i) == vel_x[i] * vel_x[i] + vel_y[i] * vel_y[i] + vel_z[i] * vel_z[i]

\* the squared speed sq is that of a speed in [low, high], to the rounding
\* of 2/1000 of the renormalization
within_speeds(sq, low, high) ==
    /\ sq >= Max2(low - 2, 0) * Max2(low - 2, 0)
    /\ sq <= (high + 2) * (high + 2)

\* the speed of agent i lies in [min_speed, max_speed]
in_speed_band(i) ==
    within_speeds(speed_sq_of(i), config.min_speed, config.max_speed)

\* agent i stands still and the step finds no force on it
still_and_unforced(i) ==
    /\ vel_x[i] = 0 /\ vel_y[i] = 0 /\ vel_z[i] = 0
    /\ accel_x'[i] = 0 /\ accel_y'[i] = 0 /\ accel_z'[i] = 0

\* C23: after every step of the classic model that is not the no-op, with
\* the neighbour pass or on the fast path without it, the speed of each
\* active agent lies in [min_speed, max_speed]; an agent whose velocity
\* after drag is zero moves at min_speed along x when min_speed > 0.
C23_ClassicSpeedInBand ==
    /\ []((has_stepped /\ model_kind = "Classic")
          => \A i \in 0 .. active_count - 1 : in_speed_band(i))
    /\ [][(/\ last_call'.op = "step" /\ model_kind = "Classic"
           /\ ~at_most_zero(last_call'.args[1]) /\ config.min_speed > 0)
          => \A i \in 0 .. active_count - 1 :
                still_and_unforced(i)
                    => /\ Abs(vel_x'[i]) = config.min_speed
                       /\ vel_y'[i] = 0 /\ vel_z'[i] = 0]_vars

\* the Sim as step_flock2 queries it: its grid rebuilt at the flock-heading
\* neighbour radius
as_queried == regridded(Self, flock2_config.neighbor_radius)

\* the candidates the query of a flock-heading pass reports for agent i
flock2_query(i) ==
    for_each_neighbor_with_wrap(as_queried.neighbor_grid, i,
        flock2_config.neighbor_radius, ~bounce_x, ~bounce_y)

\* the sequence in every order
orders_of(seq) ==
    { [k \in 1 .. Len(seq) |-> seq[p[k]]] : p \in Permutations(1 .. Len(seq)) }

\* the squared distance the callback measures from agent i to agent j
measured_sq(i, j) ==
    distance_sq_3d(offset(Self, i, j)[1], offset(Self, i, j)[2],
                   offset(Self, i, j)[3])

\* agent i sees agent j: within the neighbour radius and the field of view
sees(i, j) ==
    is_visible(Self, forward_of(Self, i), offset(Self, i, j), measured_sq(i, j))

\* the result of the callback of compute_flock2_heading for agent i over
\* the candidates in the order given
topological_pass(i, order) ==
    flock2_over(Self, i, forward_of(Self, i), order)

\* the list top holds the min(cap, v) nearest of the v visible candidates of
\* the order, by ascending distance, each with its distance
holds_nearest(i, order, top, cap) ==
    /\ Len(top) = Min2(cap, Cardinality({ k \in 1 .. Len(order) : sees(i, order[k]) }))
    /\ \A m \in 1 .. Len(top) :
          /\ \E k \in 1 .. Len(order) : order[k] = top[m][2] /\ sees(i, order[k])
          /\ top[m][1] = measured_sq(i, top[m][2])
    /\ \A m \in 1 .. Len(top) - 1 : top[m][1] <= top[m + 1][1]
    /\ \A a, b \in 1 .. Len(top) : top[a][2] = top[b][2] => a = b
    /\ \A k \in 1 .. Len(order) :
          (sees(i, order[k]) /\ \A m \in 1 .. Len(top) : top[m][2] # order[k])
              => measured_sq(i, order[k]) >= top[Len(top)][1]

seen_by(i) == Cardinality({ j \in (0 .. active_count - 1) \ { i } : sees(i, j) })

\* the number of visible neighbours that the pass of agent i counts
visible_counted(i) ==
    IF model_kind \in { "Flock2Social", "Flock2SocialFlight" }
    THEN topological_pass(i, flock2_query(i)).visible_neighbors
    ELSE lite_over(Self, i, forward_of(Self, i), flock2_query(i)).visible_count

\* the pass of agent i adds the centroid-seeking term
seeks_centroid(i) == near_boundary(flock2_config, visible_counted(i))

\* C25: in the full and the lite flock-heading variant, an agent is given
\* the centroid-seeking term exactly when the number of neighbours it
\* currently sees (within the neighbour radius and the field of view) is
\* below boundary_count.
C25_CentroidTermBelowBoundaryCount ==
    (model_kind \in { "Flock2Social", "Flock2LiteSocial" } /\ ~panicked)
        => \A i \in 0 .. active_count - 1 :
              seeks_centroid(i) <=> seen_by(i) * 1000 < flock2_config.boundary_count

\* the squared distance of agents i and j of s as the resolver measures it:
\* wrapped on the wrapping axes, with the depth when depth mode is on
separation_sq(s, i, j) ==
    distance_sq_3d(offset(s, i, j)[1], offset(s, i, j)[2], offset(s, i, j)[3])

\* the pairs the resolver can examine in the current state
Pairs == { p \in (0 .. active_count - 1) \X (0 .. active_count - 1) : p[1] < p[2] }

\* the pair is closer than the hard minimum distance
too_close(p) ==
    /\ config.hard_min_distance > EPSILON
    /\ separation_sq(Self, p[1], p[2])
           < config.hard_min_distance * config.hard_min_distance

\* the current state after the resolver has examined the pair
examined(p) == resolve_pair(Self, p[1], p[2])

\* the correction of a pair at distance dist along its separation axis
along_axis(p, dist) ==
    pushed_apart(Self, p[1], p[2],
        push_vector(flat(Self, divided(offset(Self, p[1], p[2])[1],
                                       offset(Self, p[1], p[2])[2],
                                       offset(Self, p[1], p[2])[3], dist)),
                    Min2(RDiv(config.hard_min_distance - dist,
                              HARD_CONSTRAINT_RELAXATION_DIV),
                         HARD_CONSTRAINT_MAX_PUSH)))

\* the squared length of the move of agent k from the current state to t
moved_sq(t, k) ==
    distance_sq_3d(axis_delta(t.pos_x[k] - pos_x[k], ~bounce_x),
                   axis_delta(t.pos_y[k] - pos_y[k], ~bounce_y),
                   axis_delta(t.pos_z[k] - pos_z[k], ~bounce_z))

\* the correction of a pair moves it along its separation axis by the push
\* of its distance, or leaves it when that push is nothing
moves_along_axis(p) ==
    separation_sq(Self, p[1], p[2]) > 0
        => \/ examined(p) = along_axis(p, Sqrt(separation_sq(Self, p[1], p[2])))
           \/ /\ examined(p) = Self
              /\ RDiv(config.hard_min_distance
                          - Sqrt(separation_sq(Self, p[1], p[2])),
                      HARD_CONSTRAINT_RELAXATION_DIV) <= 0

\* no agent of the pair moves by more than the largest push, and the pair
\* ends no closer than it was and no farther apart than the hard minimum
\* distance, to the rounding of a unit of length
moves_within_bounds(p) ==
    /\ \A k \in { p[1], p[2] } :
          Sqrt(moved_sq(examined(p), k)) <= HARD_CONSTRAINT_MAX_PUSH + 1
    /\ Sqrt(separation_sq(examined(p), p[1], p[2])) + 1
          >= Sqrt(separation_sq(Self, p[1], p[2]))
    /\ Sqrt(separation_sq(examined(p), p[1], p[2]))
          <= config.hard_min_distance + 1

\* C26: the correction of a pair at distance d below the hard minimum
\* distance h moves the two agents in opposite directions along the
\* separation axis of the pair by push = min((h - d) * 0.5 * 0.05, 0.0025)
\* each, before the boundary re-projection; one correction never moves an
\* agent by more than 0.0025, never brings the pair closer and never takes
\* it farther apart than h.
C26_CorrectionAlongSeparationAxis ==
    ~panicked =>
        \A p \in Pairs :
            too_close(p) => moves_along_axis(p) /\ moves_within_bounds(p)

\* the sequence holds pairs << i, j >> with i < j, no unordered pair twice
each_pair_once(seq) ==
    /\ \A k \in 1 .. Len(seq) : seq[k][1] < seq[k][2]
    /\ \A a, b \in 1 .. Len(seq) :
          { seq[a][1], seq[a][2] } = { seq[b][1], seq[b][2] } => a = b

\* the candidates the query of the resolver reported for agent i, after a
\* call that ran the resolver: the grid is the one the resolver rebuilt
resolver_query(i) ==
    for_each_neighbor_with_wrap(neighbor_grid, i, config.hard_min_distance,
                                ~bounce_x, ~bounce_y)

\* C27: in one run of the resolver every unordered pair of active agents is
\* corrected at most once, and only as the ordered pair i < j, also when
\* the query reports a neighbour more than once; a pair whose distance
\* (wrapped, with the depth when depth mode is on) is at least the hard
\* minimum distance when the resolver examines it is left untouched.
C27_EachPairCorrectedOnce ==
    /\ each_pair_once(corrections)
    /\ (~panicked /\ config.hard_min_distance > EPSILON)
           => \A p \in Pairs : ~too_close(p) => examined(p) = Self

\* a run of the resolver that was reported an agent twice and corrected two
\* pairs, with a pair at the hard minimum distance or farther
C27_Witness ==
    /\ last_call.op = "step" /\ has_phase("resolve") /\ Len(corrections) >= 2
    /\ \E i \in 0 .. active_count - 1 :
          \E a, b \in 1 .. Len(resolver_query(i)) :
             /\ a < b /\ resolver_query(i)[a] = resolver_query(i)[b]
             /\ resolver_query(i)[a] > i
             /\ \E k \in 1 .. Len(corrections) :
                   corrections[k] = << i, resolver_query(i)[a] >>
    /\ \E p \in Pairs : ~too_close(p)

\* the state the force pass of a step of the current state starts from: the
\* step counted, the flock-heading configuration sanitized, the grid rebuilt
\* at the neighbour radius of the active model
pass_snapshot ==
    IF model_kind = "Classic"
    THEN regridded(counted_step(Quiet(Self)), config.neighbor_radius)
    ELSE regridded([counted_step(Quiet(Self)) EXCEPT
                        !.flock2_config = Flock2Config_sanitize(flock2_config)],
                   Flock2Config_sanitize(flock2_config).neighbor_radius)

is_lite == model_kind \in { "Flock2LiteSocial", "Flock2LiteSocialFlight" }
is_flight == model_kind \in { "Flock2SocialFlight", "Flock2LiteSocialFlight" }

\* the state after the force pass that started from `start` has processed
\* the first k agents of order
force_pass_to(start, order, k, dt) ==
    IF model_kind = "Classic" THEN classic_pass(start, order, 1, k)
    ELSE heading_pass(start, dt, is_lite, centroid_of(start), order, 1, k)

\* the state after the force pass has processed the agents of order
force_pass(start, order, dt) == force_pass_to(start, order, Len(order), dt)

\* the state after the integration pass that follows a force pass that
\* ended in t
integrated_after(t, dt) ==
    IF model_kind = "Classic" THEN classic_integrated(t, dt, TRUE)
    ELSE flock2_headed(t, dt, is_flight, is_lite)

\* the rest of the step after an integration pass that ended in t
completed(t) ==
    IF model_kind = "Classic" THEN finished(t)
    ELSE debug_validate_state(sync_render_buffers(t))

\* the positions, velocities and headings of t and u are the same
same_motion(t, u) ==
    /\ t.pos_x = u.pos_x /\ t.pos_y = u.pos_y /\ t.pos_z = u.pos_z
    /\ t.vel_x = u.vel_x /\ t.vel_y = u.vel_y /\ t.vel_z = u.vel_z
    /\ t.heading_x = u.heading_x /\ t.heading_y = u.heading_y
    /\ t.heading_z = u.heading_z

\* the force pass in that order writes no position, velocity or heading,
\* and the integration pass after it ends in the state `after`
passes_alike(start, order, dt, after) ==
    LET t == force_pass(start, order, dt)
    IN  same_motion(t, start) /\ integrated_after(t, dt) = after

\* the step taken ran a force pass
passed_forces ==
    /\ last_call'.op = "step" /\ has_integrated' /\ ~panicked'
    /\ model_kind = "Classic" => ~steering_disabled(config)

\* the force pass of a step by dt that starts from `start` writes no
\* position, velocity or heading, and whatever its order the integration
\* pass ends in the state `after`
order_independent(start, dt, after) ==
    /\ \A k \in 0 .. active_count :
          same_motion(force_pass_to(start, ascending(active_count), k, dt), start)
    /\ \A order \in orders_of(ascending(active_count)) :
          passes_alike(start, order, dt, after)

\* C29: the force or heading pass of a step reads only the state the step
\* started the pass from: while it runs, no position, velocity or heading
\* is written, and the state after the integration pass, and so the state
\* the step ends in, is the same for every order in which the pass
\* processes the active agents.
C29_ForcePassOrderIndependent ==
    [][passed_forces =>
          \A dt \in DT_MIN .. DT_MAX :
             dt = dt_used' =>
                \A start \in { pass_snapshot } :
                   \A after \in { integrated_after(
                                      force_pass(start, ascending(active_count), dt),
                                      dt) } :
                      /\ order_independent(start, dt, after)
                      /\ completed(after) = Self']_vars

\* steps of four agents that see one another, of the classic, the full and
\* the lite model in turn
C29_Witness ==
    /\ last_call.op = "step" /\ has_integrated /\ ~panicked
    /\ active_count = 4 /\ neighbors_visited_last_step >= 4
    /\ calls_left = 0

============================================================================
